---------------------------- MODULE Spec2Model ----------------------------
(***************************************************************************)
(* Worker pool router (app/utils/queue.py), per-job processing             *)
(* (app/server.py) and the polling completion protocol                     *)
(* (app/utils/scrape_ai_mode.py) of the scraping service.                  *)
(*                                                                         *)
(* The event loop is cooperative: everything a coroutine does between two  *)
(* suspending awaits is one atomic action.  The suspending awaits are      *)
(* queue.get() on an empty queue, asyncio.to_thread(...) and               *)
(* asyncio.gather(...).  A blocking session call runs on an executor       *)
(* thread; the thread keeps running when the awaiting task is cancelled.   *)
(* A task suspended in to_thread has its thread running; the end of the    *)
(* thread and the resumption of the task with its outcome are one action.  *)
(***************************************************************************)
EXTENDS Integers, Sequences, FiniteSets, TLC

\* ------------------------------------------------------------------ bounds
NumWorkers == 2
MaxJobs == 2
MaxJobWait == 1
MaxWait == 2
MaxCount == 1

WorkerIds == 0 .. (NumWorkers - 1)
JobIds == 1 .. MaxJobs

\* ------------------------------------------------------- values and pages
\* A driver handle: the session created for worker i, or Python's None.
Session(i) == [session |-> i]
None == [session |-> -1]

\* What one read of driver.page_source followed by
\* extract_structured_from_html can give: the read raises ("fault"), the
\* parse raises ("garbled"), or the parse returns a dict with so many
\* references and text blocks.
Page(read, refs, text_blocks) ==
    [read |-> read, references |-> refs, text_blocks |-> text_blocks]
Pages ==
    {Page("fault", 0, 0), Page("garbled", 0, 0)}
        \cup {Page("ok", r, t) : r \in 0 .. MaxCount, t \in 0 .. MaxCount}

\* Outcome of a call: a returned dict, a raised exception, or Python's None
\* (a function that falls off its end).  trace counts the session
\* operations the call performed.
NoTrace == [submits |-> 0, sleeps |-> 0, reads |-> 0, parses |-> 0]
Returned(query, page, trace) ==
    [kind |-> "return", exc |-> "", query |-> query,
     references |-> page.references, text_blocks |-> page.text_blocks,
     trace |-> trace]
Raised(exc, query, trace) ==
    [kind |-> "raise", exc |-> exc, query |-> query,
     references |-> 0, text_blocks |-> 0, trace |-> trace]
ReturnedNone ==
    [kind |-> "none", exc |-> "", query |-> 0,
     references |-> 0, text_blocks |-> 0, trace |-> NoTrace]
NoOutcome ==
    [kind |-> "", exc |-> "", query |-> 0,
     references |-> 0, text_blocks |-> 0, trace |-> NoTrace]
Untraced(out) == [out EXCEPT !.trace = NoTrace]

\* ------------------------------------------- the polling protocol (pure)
\* Variant: a parse exception of the final attempt is not swallowed.
final_attempt_parse_raises(query, max_wait_seconds, pages, trace) ==
    LET final == pages[trace.reads + 1]
        t1 == [trace EXCEPT !.reads = @ + 1]
        t2 == [t1 EXCEPT !.parses = @ + 1]
    IN  IF final.read = "fault"
        THEN Raised("WebDriverException", query, t1)
        ELSE IF final.read = "garbled"
        THEN Raised("ParseError", query, t2)
        ELSE IF final.text_blocks > 0
        THEN Returned(query, final, t2)
        ELSE Raised("TimeoutError", query, t2)

\* Variant: one more interval is waited before the final read.
final_attempt_after_sleep(query, max_wait_seconds, pages, trace) ==
    LET final == pages[trace.reads + 1]
        t1 == [trace EXCEPT !.sleeps = @ + 1, !.reads = @ + 1]
        t2 == [t1 EXCEPT !.parses = @ + 1]
    IN  IF final.read = "fault"
        THEN Raised("WebDriverException", query, t1)
        ELSE IF final.read = "ok" /\ final.text_blocks > 0
        THEN Returned(query, final, t2)
        ELSE Raised("TimeoutError", query, t2)

\* Variant: the final attempt fails with a generic Exception.
final_attempt_generic(query, max_wait_seconds, pages, trace) ==
    LET final == pages[trace.reads + 1]
        t1 == [trace EXCEPT !.reads = @ + 1]
        t2 == [t1 EXCEPT !.parses = @ + 1]
    IN  IF final.read = "fault"
        THEN Raised("WebDriverException", query, t1)
        ELSE IF final.read = "ok" /\ final.text_blocks > 0
        THEN Returned(query, final, t2)
        ELSE Raised("Exception", query, t2)

\* The final read + parse after the polling loop.
final_attempt(query, max_wait_seconds, pages, trace) ==
    LET final == pages[trace.reads + 1]
        t1 == [trace EXCEPT !.reads = @ + 1]
        t2 == [t1 EXCEPT !.parses = @ + 1]
    IN  IF final.read = "fault"
        THEN Raised("WebDriverException", query, t1)
        ELSE IF final.read = "ok" /\ final.text_blocks > 0
        THEN Returned(query, final, t2)
        ELSE Raised("TimeoutError", query, t2)

\* Variant: a tick returns only a page that also has a text block.
success_predicate_with_text(page) ==
    page.references > 0 /\ page.text_blocks > 0

\* What a poll tick does with its parsed page: TRUE = return it now.
success_predicate(page) == page.references > 0

\* for attempt in range(max_wait_seconds): sleep, read, parse, test.
RECURSIVE poll(_, _, _, _, _)
poll(query, max_wait_seconds, pages, attempt, trace) ==
    IF attempt >= max_wait_seconds
    THEN final_attempt(query, max_wait_seconds, pages, trace)
    ELSE LET html == pages[trace.reads + 1]
             t1 == [trace EXCEPT !.sleeps = @ + 1, !.reads = @ + 1]
             t2 == [t1 EXCEPT !.parses = @ + 1]
         IN  IF html.read = "fault"
             THEN Raised("WebDriverException", query, t1)
             ELSE IF html.read = "garbled"
             THEN poll(query, max_wait_seconds, pages, attempt + 1, t2)
             ELSE IF success_predicate(html)
             THEN Returned(query, html, t2)
             ELSE poll(query, max_wait_seconds, pages, attempt + 1, t2)

\* env.submit: whether find_element/send_keys succeed; env.pages: what the
\* successive reads of page_source give.
perform_search_and_extract(driver, query, max_wait_seconds, env) ==
    IF driver = None
    THEN Raised("AttributeError", query, NoTrace)
    ELSE IF ~env.submit
    THEN Raised("WebDriverException", query, NoTrace)
    ELSE poll(query, max_wait_seconds, env.pages, 0,
              [NoTrace EXCEPT !.submits = 1])

run_job(driver, query, max_wait_seconds, env) ==
    perform_search_and_extract(driver, query, max_wait_seconds, env)

\* Number of reads a run can make: one per tick plus the final one.
ReadsNeeded(max_wait_seconds) ==
    (IF max_wait_seconds > 0 THEN max_wait_seconds ELSE 0) + 1
PageSeqs(n) == [1 .. n -> Pages]
ProtocolEnvs(max_wait_seconds) ==
    [submit : BOOLEAN, pages : PageSeqs(ReadsNeeded(max_wait_seconds))]
\* The pages a pooled job meets: for the router only the presence of
\* references and text blocks in a page matters, not their number.
JobPages == {p \in Pages : p.references <= 1 /\ p.text_blocks <= 1}
JobEnvs(max_wait_seconds) ==
    [submit : BOOLEAN,
     pages : [1 .. ReadsNeeded(max_wait_seconds) -> JobPages]]

\* ------------------------------------------------------ the session reset
\* env.found: whether the search box appears within the 50 probes.
go_to_google_start(driver, env) ==
    IF driver = None
    THEN Raised("AttributeError", 0, NoTrace)
    ELSE IF ~env.found
    THEN Raised("Exception", 0, NoTrace)
    ELSE ReturnedNone

\* env.clear: whether find_element/clear/get of the try block succeed.
reset_to_start(driver, env) ==
    IF driver # None /\ env.clear
    THEN ReturnedNone
    ELSE go_to_google_start(driver, env)

ResetEnvs == [clear : BOOLEAN, found : BOOLEAN]

\* ================================================================ the pool
VARIABLES
    workers,        \* Worker records: driver, queue, state, lock
    next_idx,       \* JobRouter._next_idx
    worker_tasks,   \* JobRouter.worker_tasks: the worker each task serves
    tasks,          \* the latest _worker_loop task of each worker
    jobs,           \* every SearchJob created so far, in creation order
    orphans,        \* executor threads whose awaiting task was cancelled
    caller,         \* where the caller of start()/stop() is suspended
    blocked,        \* the event loop thread is stuck in lock.acquire()
    proto,          \* one stand-alone run of the polling protocol
    parser,         \* one stand-alone run of a function of the parser
    calls           \* process_job_on_worker called from outside the loops

vars ==
    <<workers, next_idx, worker_tasks, tasks, jobs, orphans, caller,
      blocked, proto, parser, calls>>
poolVars ==
    <<workers, next_idx, worker_tasks, tasks, jobs, orphans, caller, blocked>>

MaxCalls == 2
CallIds == 1 .. MaxCalls

NoCall ==
    [pc |-> "none", worker |-> 0, query |-> 0, max_wait_seconds |-> 0,
     result |-> NoOutcome, e |-> NoOutcome, out |-> NoOutcome]
NoCalls == [c \in CallIds |-> NoCall]

NoTask ==
    [pc |-> "none", must_cancel |-> FALSE, job |-> 0,
     result |-> NoOutcome, e |-> NoOutcome, resets |-> 0]
NewTask == [NoTask EXCEPT !.pc = "created"]
PendingFuture == [st |-> "pending", val |-> NoOutcome]
NoParse ==
    [phase |-> "off", fn |-> "", input |-> << >>, out |-> << >>,
     first |-> << >>]
NoProto ==
    [phase |-> "off", driver |-> None, max_wait_seconds |-> 0,
     env |-> [submit |-> TRUE, pages |-> << >>], out |-> NoOutcome,
     attempts |-> << >>, page |-> [url |-> "", box |-> ""]]

\* on_startup up to JobRouter(workers), then JobRouter.__init__.
on_startup ==
    /\ workers = [i \in WorkerIds |->
                    [driver |-> Session(i), queue |-> << >>,
                     state |-> "initializing", lock |-> FALSE]]
    /\ next_idx = 0
    /\ worker_tasks = << >>
    /\ tasks = [i \in WorkerIds |-> NoTask]
    /\ jobs = << >>
    /\ orphans = {}
    /\ caller = "idle"
    /\ blocked = FALSE
    /\ calls = NoCalls

Init == on_startup /\ proto = NoProto /\ parser = NoParse

\* ----------------------------------------------------------------- enqueue
\* Variant: the scan starts at index 0 instead of at the cursor.
scan_ready_lowest(ws, idx0, i) ==
    LET ready == {w \in WorkerIds : ws[w].state = "ready"}
    IN  IF ready = {}
        THEN -1
        ELSE CHOOSE w \in ready : \A v \in ready : w <= v

RECURSIVE scan_ready(_, _, _)
\* for i in range(len(workers)): the first idx = (next_idx + i) % len whose
\* worker is ready; -1 when the scan finds none.
scan_ready(ws, idx0, i) ==
    IF i >= NumWorkers
    THEN -1
    ELSE LET idx == (idx0 + i) % NumWorkers
         IN  IF ws[idx].state = "ready" THEN idx ELSE scan_ready(ws, idx0, i + 1)

\* Variant: plain round robin, blind to the workers' states.
select_worker_blind(ws, idx0) == idx0

\* The index enqueue selects: the scan's, or the cursor's when none is ready.
select_worker(ws, idx0) ==
    LET found == scan_ready(ws, idx0, 0)
    IN  IF found # -1 THEN found ELSE idx0

enqueue_upto(limit, max_wait_seconds) ==
    /\ ~blocked
    /\ Len(jobs) < limit
    /\ LET id == Len(jobs) + 1
           sel == select_worker(workers, next_idx)
           job == [worker |-> sel, query |-> id,
                   max_wait_seconds |-> max_wait_seconds,
                   future |-> PendingFuture, resets |-> 0]
       IN  /\ next_idx' = (sel + 1) % NumWorkers
           /\ workers' = [workers EXCEPT ![sel].queue = Append(@, id)]
           /\ jobs' = Append(jobs, job)
    /\ UNCHANGED <<worker_tasks, tasks, orphans, caller, blocked, proto,
                   parser, calls>>

\* enqueue, for the first MaxJobs jobs.
enqueue(max_wait_seconds) == enqueue_upto(MaxJobs, max_wait_seconds)

\* The task awaiting `return await future` is cancelled by its own caller.
caller_cancel(j) ==
    /\ ~blocked
    /\ j \in 1 .. Len(jobs)
    /\ jobs[j].future.st = "pending"
    /\ jobs' = [jobs EXCEPT ![j].future.st = "cancelled"]
    /\ UNCHANGED <<workers, next_idx, worker_tasks, tasks, orphans, caller,
                   blocked, proto, parser, calls>>

\* ------------------------------------------------------------- worker loop
InProcess == {"run_job", "reset86", "reset92"}

\* Top of `while True`: job = await worker.queue.get().  With a job in the
\* queue get() does not suspend, and the loop runs on through lines 51-55
\* and process_job_on_worker lines 80-83 to the to_thread that starts
\* run_job.  wk, tk, jbs: the worker, task and jobs as they are by then.
loop_iteration(w, wk, tk, jbs) ==
    IF wk.queue = << >>
    THEN /\ workers' = [workers EXCEPT ![w] = wk]
         /\ tasks' = [tasks EXCEPT ![w] = [NewTask EXCEPT !.pc = "get"]]
         /\ jobs' = jbs
         /\ blocked' = blocked
    ELSE LET j == Head(wk.queue)
             taken == [wk EXCEPT !.queue = Tail(@), !.state = "busy"]
         IN  IF wk.lock
             THEN \* `with worker.lock` blocks the event loop thread
                  /\ workers' = [workers EXCEPT ![w] = taken]
                  /\ tasks' = [tasks EXCEPT ![w] =
                                  [NewTask EXCEPT !.pc = "acquire", !.job = j]]
                  /\ jobs' = jbs
                  /\ blocked' = TRUE
             ELSE /\ workers' = [workers EXCEPT ![w] =
                                    [taken EXCEPT !.lock = TRUE]]
                  /\ tasks' = [tasks EXCEPT ![w] =
                                  [NewTask EXCEPT !.pc = "run_job", !.job = j]]
                  /\ jobs' = jbs
                  /\ blocked' = blocked

\* First step of the task: worker.state = "ready", then the loop.
worker_loop_begin(w) ==
    /\ ~blocked
    /\ tasks[w].pc = "created"
    /\ ~tasks[w].must_cancel
    /\ loop_iteration(w, [workers[w] EXCEPT !.state = "ready"], tasks[w], jobs)
    /\ UNCHANGED <<next_idx, worker_tasks, orphans, caller, proto, parser, calls>>

\* queue.put() has woken the getter the loop waits on.
queue_get_wakeup(w) ==
    /\ ~blocked
    /\ tasks[w].pc = "get"
    /\ ~tasks[w].must_cancel
    /\ workers[w].queue # << >>
    /\ loop_iteration(w, workers[w], tasks[w], jobs)
    /\ UNCHANGED <<next_idx, worker_tasks, orphans, caller, proto, parser, calls>>

\* Variant: a task cancelled before its first step marks its worker stopped
\* like any other.
worker_loop_cancelled_marks_all(w) ==
    /\ ~blocked
    /\ tasks[w].must_cancel
    /\ tasks[w].pc \in {"created", "get"} \cup InProcess
    /\ tasks' = [tasks EXCEPT ![w] = [NoTask EXCEPT !.pc = "done"]]
    /\ workers' = [workers EXCEPT ![w] =
                     [@ EXCEPT !.state = "stopped",
                               !.lock = IF tasks[w].pc \in InProcess
                                        THEN FALSE ELSE @]]
    /\ orphans' = IF tasks[w].pc \in InProcess
                  THEN orphans \cup {[driver |-> workers[w].driver,
                                      job |-> tasks[w].job]}
                  ELSE orphans
    /\ UNCHANGED <<next_idx, worker_tasks, jobs, caller, blocked, proto,
                   parser, calls>>

\* The task resumes with CancelledError at the await it is suspended in.
\* Not yet started: the coroutine never runs.  In queue.get(): line 64-67.
\* In process_job_on_worker: CancelledError is no Exception, so it leaves
\* the `with` (lock released), passes the finally of lines 59-62 and ends
\* in lines 64-67; the executor thread is not interrupted.
worker_loop_cancelled(w) ==
    /\ ~blocked
    /\ tasks[w].must_cancel
    /\ tasks[w].pc \in {"created", "get"} \cup InProcess
    /\ tasks' = [tasks EXCEPT ![w] = [NoTask EXCEPT !.pc = "done"]]
    /\ workers' = [workers EXCEPT ![w] =
                     IF tasks[w].pc = "created"
                     THEN @
                     ELSE [@ EXCEPT !.state = "stopped",
                                    !.lock = IF tasks[w].pc \in InProcess
                                             THEN FALSE ELSE @]]
    /\ orphans' = IF tasks[w].pc \in InProcess
                  THEN orphans \cup {[driver |-> workers[w].driver,
                                      job |-> tasks[w].job]}
                  ELSE orphans
    /\ UNCHANGED <<next_idx, worker_tasks, jobs, caller, blocked, proto, parser, calls>>

\* ------------------------------------------------------ executor threads
\* A thread nobody awaits any more runs to its end.
orphan_finish(o) ==
    /\ o \in orphans
    /\ orphans' = orphans \ {o}
    /\ UNCHANGED <<workers, next_idx, worker_tasks, tasks, jobs, caller,
                   blocked, proto, parser, calls>>

\* -------------------------------------------------- process_job_on_worker
\* What `worker.driver = await asyncio.to_thread(reset_to_start, ...)`
\* stores: the value reset_to_start returned, and it returns nothing.
reset_return_value(driver, out) == None

\* Variant: the error of a failed reset replaces the caught exception.
reraise_latest(e, reset_out) ==
    IF reset_out.kind = "raise" THEN reset_out ELSE e

\* `raise e` of line 96: e is the exception the except clause caught.
reraise(e, reset_out) == e

\* Variant: the outcome is stored whatever the state of the future.
resolve_overwrites(future, ret) ==
    IF ret.kind = "return"
    THEN [st |-> "result", val |-> ret]
    ELSE [st |-> "exception", val |-> ret]

\* job.future.set_result / set_exception of lines 56 and 58; on a future
\* that is no longer pending both raise InvalidStateError and change nothing.
resolve(future, ret) ==
    IF future.st # "pending"
    THEN future
    ELSE IF ret.kind = "return"
    THEN [st |-> "result", val |-> ret]
    ELSE [st |-> "exception", val |-> ret]

\* Variant: an Exception that leaves the inner try ends the loop.
outer_except_break(exc) == "break"

\* Lines 68-70: an Exception that leaves the inner try is printed and the
\* loop goes on.
outer_except(exc) == "continue"

\* The job ends with ret (returned or raised by process_job_on_worker) and
\* the driver drv: lock released, lines 56-62, then the next iteration.
job_done(w, drv, ret) ==
    LET j == tasks[w].job
        invalid == jobs[j].future.st # "pending"
        jbs == [jobs EXCEPT ![j].future = resolve(@, ret)]
        wk == [workers[w] EXCEPT !.driver = drv, !.lock = FALSE,
                                 !.state = "ready"]
    IN  IF invalid /\ outer_except("InvalidStateError") # "continue"
        THEN /\ workers' = [workers EXCEPT ![w] = wk]
             /\ tasks' = [tasks EXCEPT ![w] = [NoTask EXCEPT !.pc = "done"]]
             /\ jobs' = jbs
             /\ blocked' = blocked
        ELSE loop_iteration(w, wk, tasks[w], jbs)

\* to_thread(reset_to_start, worker.driver) of line 86 or 92 starts.  The
\* resets field of the job counts the resets started on its behalf.
start_reset(w, pc, result, e) ==
    /\ tasks' = [tasks EXCEPT ![w].pc = pc, ![w].result = result,
                              ![w].e = e, ![w].resets = @ + 1]
    /\ jobs' = [jobs EXCEPT ![tasks[w].job].resets = @ + 1]
    /\ UNCHANGED <<workers, blocked>>

Resumable(w, pc) ==
    /\ ~blocked
    /\ tasks[w].pc = pc
    /\ ~tasks[w].must_cancel

\* The thread of to_thread(run_job, ...) ends and the task resumes: lines
\* 84-86 when run_job returned, lines 89-92 when it raised.
after_run_job(w) ==
    /\ Resumable(w, "run_job")
    /\ LET j == tasks[w].job
       IN  \E env \in JobEnvs(jobs[j].max_wait_seconds) :
             LET out == Untraced(run_job(workers[w].driver, jobs[j].query,
                                         jobs[j].max_wait_seconds, env))
             IN  IF out.kind = "return"
                 THEN start_reset(w, "reset86", out, NoOutcome)
                 ELSE start_reset(w, "reset92", NoOutcome, out)
    /\ UNCHANGED <<next_idx, worker_tasks, orphans, caller, proto, parser, calls>>

\* The reset of line 86 ends: lines 86-88, or lines 89-92 when it raised.
after_reset86(w) ==
    /\ Resumable(w, "reset86")
    /\ \E env \in ResetEnvs :
         LET out == reset_to_start(workers[w].driver, env)
         IN  IF out.kind = "raise"
             THEN start_reset(w, "reset92", tasks[w].result, out)
             ELSE job_done(w, reset_return_value(workers[w].driver, out),
                           tasks[w].result)
    /\ UNCHANGED <<next_idx, worker_tasks, orphans, caller, proto, parser, calls>>

\* The reset of line 92 ends: lines 92-96.
after_reset92(w) ==
    /\ Resumable(w, "reset92")
    /\ \E env \in ResetEnvs :
         LET out == reset_to_start(workers[w].driver, env)
         IN  job_done(w,
                      IF out.kind = "raise"
                      THEN workers[w].driver
                      ELSE reset_return_value(workers[w].driver, out),
                      reraise(tasks[w].e, out))
    /\ UNCHANGED <<next_idx, worker_tasks, orphans, caller, proto, parser, calls>>

\* ----------------------------------------------------------- stop, start
Range(seq) == {seq[i] : i \in 1 .. Len(seq)}

\* for task in worker_tasks: if not task.done(): task.cancel()
cancel_tasks(wt, ts) ==
    [w \in WorkerIds |->
        IF w \in Range(wt) /\ ts[w].pc # "done"
        THEN [ts[w] EXCEPT !.must_cancel = TRUE]
        ELSE ts[w]]

\* Variant: stop() forgets to clear worker_tasks.
clear_tasks_skipped(wt) == wt

\* worker_tasks.clear()
clear_tasks(wt) == << >>

\* for worker in workers: create_task(_worker_loop(...)); append
create_tasks(wt) == [i \in 1 .. NumWorkers |-> i - 1]

AllDone(wt) == \A w \in Range(wt) : tasks[w].pc = "done"

\* stop() up to its await: with no task to wait for it runs to its end.
stop ==
    /\ ~blocked
    /\ caller = "idle"
    /\ tasks' = cancel_tasks(worker_tasks, tasks)
    /\ IF worker_tasks = << >>
       THEN /\ worker_tasks' = clear_tasks(worker_tasks)
            /\ caller' = "idle"
       ELSE /\ worker_tasks' = worker_tasks
            /\ caller' = "stop_gather"
    /\ UNCHANGED <<workers, next_idx, jobs, orphans, blocked, proto, parser, calls>>

\* gather() is over: every task has ended.
stop_return ==
    /\ ~blocked
    /\ caller = "stop_gather"
    /\ AllDone(worker_tasks)
    /\ worker_tasks' = clear_tasks(worker_tasks)
    /\ caller' = "idle"
    /\ UNCHANGED <<workers, next_idx, tasks, jobs, orphans, blocked, proto, parser, calls>>

\* start(): await self.stop(), then one task per worker.
start ==
    /\ ~blocked
    /\ caller = "idle"
    /\ IF worker_tasks = << >>
       THEN /\ worker_tasks' = create_tasks(clear_tasks(worker_tasks))
            /\ tasks' = [w \in WorkerIds |-> NewTask]
            /\ caller' = "idle"
       ELSE /\ worker_tasks' = worker_tasks
            /\ tasks' = cancel_tasks(worker_tasks, tasks)
            /\ caller' = "start_gather"
    /\ UNCHANGED <<workers, next_idx, jobs, orphans, blocked, proto, parser, calls>>

start_return ==
    /\ ~blocked
    /\ caller = "start_gather"
    /\ AllDone(worker_tasks)
    /\ worker_tasks' = create_tasks(clear_tasks(worker_tasks))
    /\ tasks' = [w \in WorkerIds |-> NewTask]
    /\ caller' = "idle"
    /\ UNCHANGED <<workers, next_idx, jobs, orphans, blocked, proto, parser, calls>>

\* --------------------------------------------------------------- the pool
Next ==
    \/ \E m \in 1 .. MaxJobWait : enqueue(m)
    \/ \E j \in JobIds : caller_cancel(j)
    \/ \E w \in WorkerIds : worker_loop_begin(w)
    \/ \E w \in WorkerIds : queue_get_wakeup(w)
    \/ \E w \in WorkerIds : worker_loop_cancelled(w)
    \/ \E o \in orphans : orphan_finish(o)
    \/ \E w \in WorkerIds : after_run_job(w)
    \/ \E w \in WorkerIds : after_reset86(w)
    \/ \E w \in WorkerIds : after_reset92(w)
    \/ stop
    \/ stop_return
    \/ start
    \/ start_return

Spec == Init /\ [][Next]_vars

\* ------------------------------------------------------------ scheduling
\* What the event loop and the executor guarantee: a task that can resume
\* is resumed, a cancellation requested is delivered, and a thread runs to
\* its end.  Nothing obliges a caller to call enqueue, start or stop, or to
\* cancel its own request.
Fairness ==
    /\ \A w \in WorkerIds :
          /\ WF_vars(worker_loop_begin(w))
          /\ WF_vars(queue_get_wakeup(w))
          /\ WF_vars(worker_loop_cancelled(w))
          /\ WF_vars(after_run_job(w))
          /\ WF_vars(after_reset86(w))
          /\ WF_vars(after_reset92(w))
    /\ WF_vars(\E o \in orphans : orphan_finish(o))
    /\ WF_vars(stop_return)
    /\ WF_vars(start_return)

FairSpec == Spec /\ Fairness

\* ------------------------------------------------- the server's shutdown
\* on_shutdown up to the await inside job_router.stop(); with no task to
\* wait for, stop() returns at once and the sessions are closed in the
\* same step.
on_shutdown ==
    /\ ~blocked
    /\ caller = "idle"
    /\ tasks' = cancel_tasks(worker_tasks, tasks)
    /\ IF worker_tasks = << >>
       THEN /\ worker_tasks' = clear_tasks(worker_tasks)
            /\ caller' = "closed"
       ELSE /\ worker_tasks' = worker_tasks
            /\ caller' = "shutdown_gather"
    /\ UNCHANGED <<workers, next_idx, jobs, orphans, blocked, proto, parser, calls>>

\* The sessions on_shutdown closes: worker.driver.quit() for every worker
\* whose driver is not None.
closed_sessions(ws) == {ws[w].driver : w \in WorkerIds} \ {None}

\* stop() has returned: `for worker in workers: worker.driver.quit()`.
close_sessions ==
    /\ ~blocked
    /\ caller = "shutdown_gather"
    /\ AllDone(worker_tasks)
    /\ worker_tasks' = clear_tasks(worker_tasks)
    /\ caller' = "closed"
    /\ UNCHANGED <<workers, next_idx, tasks, jobs, orphans, blocked, proto, parser, calls>>

ServerNext ==
    \/ Next
    \/ on_shutdown
    \/ close_sessions

ServerSpec == Init /\ [][ServerNext]_vars

\* ------------------------------------------- the protocol, called directly
\* perform_search_and_extract(driver, query, max_wait_seconds) on its own:
\* every driver, every budget from -1 to MaxWait, every run of pages.
ProtoInit ==
    /\ on_startup
    /\ \E d \in {Session(0), None}, m \in -1 .. MaxWait :
         \E env \in ProtocolEnvs(m) :
            proto = [NoProto EXCEPT !.phase = "called", !.driver = d,
                                    !.max_wait_seconds = m, !.env = env]
    /\ parser = NoParse

protocol_run ==
    /\ proto.phase = "called"
    /\ proto' = [proto EXCEPT
                   !.phase = "done",
                   !.out = perform_search_and_extract(
                               proto.driver, 1, proto.max_wait_seconds,
                               proto.env)]
    /\ UNCHANGED <<poolVars, parser, calls>>

ProtoNext == protocol_run

ProtoSpec == ProtoInit /\ [][ProtoNext]_vars

\* ------------------------------------------- one-shot scrape and fallback
MaxFallbackWait == 1

\* scrape_ai_mode: a driver of its own, the start page, the protocol, and
\* driver.quit() in the finally clause.  env.create, env.found and
\* env.quit: whether create_driver, the search box probes and
\* driver.quit() succeed.  An exception of quit() replaces the outcome
\* of the try block.  The log tells what was done to the session.
scrape_ai_mode(query, max_wait_seconds, env, session) ==
    IF ~env.create
    THEN [out |-> Raised("Exception", 0, NoTrace),
          log |-> [budget |-> max_wait_seconds, created |-> FALSE,
                   quits |-> 0]]
    ELSE LET driver == Session(session)
             opened == go_to_google_start(driver, env)
             tried == IF opened.kind = "raise"
                      THEN opened
                      ELSE perform_search_and_extract(
                               driver, query, max_wait_seconds, env)
         IN  [out |-> IF env.quit
                      THEN tried
                      ELSE Raised("WebDriverException", 0, NoTrace),
              log |-> [budget |-> max_wait_seconds, created |-> TRUE,
                       quits |-> 1]]

\* Variant: the second attempt gets the same budget.
same_budget(max_wait_seconds) == max_wait_seconds

\* max_wait_seconds * 2
longer_wait(max_wait_seconds) == max_wait_seconds * 2

\* except TimeoutError
is_timeout(out) == out.kind = "raise" /\ out.exc = "TimeoutError"

scrape_ai_mode_with_fallback(query, max_wait_seconds, env1, env2) ==
    LET first == scrape_ai_mode(query, max_wait_seconds, env1, 1)
        second == scrape_ai_mode(query, longer_wait(max_wait_seconds),
                                 env2, 2)
    IN  IF is_timeout(first.out)
        THEN [out |-> second.out, attempts |-> <<first, second>>]
        ELSE [out |-> first.out, attempts |-> <<first>>]

FallbackPages ==
    {Page("fault", 0, 0), Page("garbled", 0, 0), Page("ok", 0, 0),
     Page("ok", 1, 1)}
AttemptEnvs(max_wait_seconds) ==
    [create : BOOLEAN, found : BOOLEAN, submit : BOOLEAN, quit : BOOLEAN,
     pages : [1 .. ReadsNeeded(max_wait_seconds) -> FallbackPages]]

FallbackInit ==
    /\ on_startup
    /\ parser = NoParse
    /\ \E m \in -1 .. MaxFallbackWait :
         \E env \in AttemptEnvs(m) :
            proto = [NoProto EXCEPT !.phase = "fallback_called",
                                    !.max_wait_seconds = m, !.env = env]

\* env2: what the second attempt meets, if there is one.
fallback_run ==
    /\ proto.phase = "fallback_called"
    /\ \E env2 \in AttemptEnvs(longer_wait(proto.max_wait_seconds)) :
         LET run == scrape_ai_mode_with_fallback(
                        1, proto.max_wait_seconds, proto.env, env2)
         IN  proto' = [proto EXCEPT !.phase = "fallback_done",
                                    !.out = run.out,
                                    !.attempts = run.attempts]
    /\ UNCHANGED <<poolVars, parser, calls>>

FallbackNext == fallback_run

FallbackSpec == FallbackInit /\ [][FallbackNext]_vars

\* --------------------------------------------- a burst of submissions
\* All loops have started and wait in queue.get(); the cursor is wherever
\* earlier traffic left it.  Jobs are submitted and dequeued and their
\* protocol runs end, but no job completes.
BurstInit ==
    /\ \E c \in WorkerIds : next_idx = c
    /\ workers = [i \in WorkerIds |->
                    [driver |-> Session(i), queue |-> << >>,
                     state |-> "ready", lock |-> FALSE]]
    /\ worker_tasks = create_tasks(<< >>)
    /\ tasks = [i \in WorkerIds |-> [NewTask EXCEPT !.pc = "get"]]
    /\ jobs = << >>
    /\ orphans = {}
    /\ caller = "idle"
    /\ blocked = FALSE
    /\ proto = NoProto
    /\ parser = NoParse
    /\ calls = NoCalls

BurstNext ==
    \/ \E m \in 1 .. MaxJobWait : enqueue(m)
    \/ \E j \in JobIds : caller_cancel(j)
    \/ \E w \in WorkerIds : queue_get_wakeup(w)
    \/ \E w \in WorkerIds : after_run_job(w)

BurstSpec == BurstInit /\ [][BurstNext]_vars

\* ------------------------------------------------ a queue of three jobs
\* The loops run and wait for jobs; up to MaxStacked jobs are enqueued while
\* the loops dequeue and finish them, with no start(), stop() or
\* cancellation.
MaxStacked == 3

StackInit ==
    /\ next_idx = 0
    /\ workers = [i \in WorkerIds |->
                    [driver |-> Session(i), queue |-> << >>,
                     state |-> "ready", lock |-> FALSE]]
    /\ worker_tasks = create_tasks(<< >>)
    /\ tasks = [i \in WorkerIds |-> [NewTask EXCEPT !.pc = "get"]]
    /\ jobs = << >>
    /\ orphans = {}
    /\ caller = "idle"
    /\ blocked = FALSE
    /\ proto = NoProto
    /\ parser = NoParse
    /\ calls = NoCalls

StackNext ==
    \/ \E m \in 1 .. MaxJobWait : enqueue_upto(MaxStacked, m)
    \/ \E w \in WorkerIds : queue_get_wakeup(w)
    \/ \E w \in WorkerIds : after_run_job(w)
    \/ \E w \in WorkerIds : after_reset86(w)
    \/ \E w \in WorkerIds : after_reset92(w)

StackSpec == StackInit /\ [][StackNext]_vars

\* ================================================ the reset, probe by probe
\* Probes of reset_to_start's wait loop and of go_to_google_start's.
ResetProbes == 30
StartProbes == 50

\* What the session shows: the page it is on and its search box.
PageState(url, box) == [url |-> url, box |-> box]

\* How the search box comes up after driver.get(START_URL): absent before
\* probe number load.present, disabled from there to load.enabled, enabled
\* from there on.  A number beyond the last probe means never.
BoxAt(load, i) ==
    IF i >= load.enabled THEN "enabled"
    ELSE IF i >= load.present THEN "disabled"
    ELSE "absent"
ProbeTimes == {1, 2, ResetProbes, ResetProbes + 1, StartProbes, StartProbes + 1}
Loads ==
    {l \in [present : ProbeTimes, enabled : ProbeTimes] : l.present <= l.enabled}

\* Lines 393-401: the number of the probe at which the loop is left, by
\* break or by running out.  A find_element that raises is swallowed.
RECURSIVE wait_for_search_box(_, _)
wait_for_search_box(load, attempt) ==
    IF attempt >= ResetProbes \/ BoxAt(load, attempt) = "enabled"
    THEN attempt
    ELSE wait_for_search_box(load, attempt + 1)

\* Lines 255-261 of go_to_google_start: the number of the probe that found
\* the search box, 0 when search_box is still None after the loop.
RECURSIVE poll_for_search_box(_, _)
poll_for_search_box(load, attempt) ==
    IF attempt > StartProbes
    THEN 0
    ELSE IF BoxAt(load, attempt) # "absent"
    THEN attempt
    ELSE poll_for_search_box(load, attempt + 1)

\* Lines 385-390: find_element, clear() and driver.get all succeed.
try_block(env) == env.find /\ env.clear /\ env.get

\* go_to_google_start finds the box: driver.get succeeds and a probe does.
search_box_found(env) ==
    env.get2 /\ poll_for_search_box(env.load2, 1) # 0

\* The page go_to_google_start leaves the session on.
go_to_google_start_page(driver, page, env) ==
    IF driver = None \/ ~env.get2
    THEN page
    ELSE LET n == poll_for_search_box(env.load2, 1)
         IN  PageState("start",
                       BoxAt(env.load2, IF n = 0 THEN StartProbes ELSE n))

\* The page reset_to_start leaves the session on.
reset_to_start_page(driver, page, env) ==
    IF driver # None /\ try_block(env)
    THEN LET n == wait_for_search_box(env.load, 1)
         IN  PageState("start", BoxAt(env.load, n))
    ELSE go_to_google_start_page(driver, page, env)

\* What reset_to_start returns or raises.
reset_to_start_outcome(driver, env) ==
    reset_to_start(driver, [clear |-> try_block(env),
                            found |-> search_box_found(env)])

ProbeEnvs ==
    [find : BOOLEAN, clear : BOOLEAN, get : BOOLEAN, load : Loads,
     get2 : BOOLEAN, load2 : Loads]

\* reset_to_start(driver) on its own, after a job: every driver, every
\* outcome of the session calls and every way the box can come up.
ResetInit ==
    /\ on_startup
    /\ parser = NoParse
    /\ \E d \in {Session(0), None}, env \in ProbeEnvs :
          proto = [NoProto EXCEPT !.phase = "reset_called", !.driver = d,
                                  !.env = env,
                                  !.page = PageState("results", "enabled")]

reset_run ==
    /\ proto.phase = "reset_called"
    /\ proto' = [proto EXCEPT
                   !.phase = "reset_done",
                   !.out = reset_to_start_outcome(proto.driver, proto.env),
                   !.page = reset_to_start_page(proto.driver, proto.page,
                                                proto.env)]
    /\ UNCHANGED <<poolVars, parser, calls>>

ResetNext == reset_run

ResetSpec == ResetInit /\ [][ResetNext]_vars

\* ======================= process_job_on_worker called from outside a loop
\* Besides the worker loops, up to MaxCalls coroutines of the same event
\* loop call process_job_on_worker(worker, job) themselves.
\* Lines 80-83: the lock, then the thread of run_job.  `with worker.lock:`
\* is threading.Lock.acquire(), a blocking call made on the event loop
\* thread: with the lock held by a coroutine suspended in an await of this
\* same loop, the thread stays in it.
direct_call(c, w, m) ==
    /\ ~blocked
    /\ calls[c].pc = "none"
    /\ LET call == [NoCall EXCEPT !.worker = w, !.query = MaxJobs + c,
                                  !.max_wait_seconds = m]
       IN  IF workers[w].lock
           THEN /\ calls' = [calls EXCEPT ![c] = [call EXCEPT !.pc = "acquire"]]
                /\ blocked' = TRUE
                /\ workers' = workers
           ELSE /\ calls' = [calls EXCEPT ![c] = [call EXCEPT !.pc = "run_job"]]
                /\ blocked' = blocked
                /\ workers' = [workers EXCEPT ![w].lock = TRUE]
    /\ UNCHANGED <<next_idx, worker_tasks, tasks, jobs, orphans, caller,
                   proto, parser>>

\* Lines 83-86, or 89-92 when run_job raised.
direct_after_run_job(c) ==
    /\ ~blocked
    /\ calls[c].pc = "run_job"
    /\ \E env \in JobEnvs(calls[c].max_wait_seconds) :
         LET out == Untraced(run_job(workers[calls[c].worker].driver,
                                     calls[c].query,
                                     calls[c].max_wait_seconds, env))
         IN  calls' = [calls EXCEPT ![c] =
                          IF out.kind = "return"
                          THEN [@ EXCEPT !.pc = "reset86", !.result = out]
                          ELSE [@ EXCEPT !.pc = "reset92", !.e = out]]
    /\ UNCHANGED <<poolVars, proto, parser>>

\* The invocation ends with ret and the driver drv; the lock is released.
direct_done(c, drv, ret) ==
    /\ calls' = [calls EXCEPT ![c].pc = "done", ![c].out = ret]
    /\ workers' = [workers EXCEPT ![calls[c].worker].driver = drv,
                                  ![calls[c].worker].lock = FALSE]

\* Lines 86-88, or 89-92 when the reset raised.
direct_after_reset86(c) ==
    /\ ~blocked
    /\ calls[c].pc = "reset86"
    /\ LET drv == workers[calls[c].worker].driver
       IN  \E env \in ResetEnvs :
             LET out == reset_to_start(drv, env)
             IN  IF out.kind = "raise"
                 THEN /\ calls' = [calls EXCEPT ![c].pc = "reset92",
                                                ![c].e = out]
                      /\ workers' = workers
                 ELSE direct_done(c, reset_return_value(drv, out),
                                  calls[c].result)
    /\ UNCHANGED <<next_idx, worker_tasks, tasks, jobs, orphans, caller,
                   blocked, proto, parser>>

\* Lines 92-96.
direct_after_reset92(c) ==
    /\ ~blocked
    /\ calls[c].pc = "reset92"
    /\ LET drv == workers[calls[c].worker].driver
       IN  \E env \in ResetEnvs :
             LET out == reset_to_start(drv, env)
             IN  direct_done(c,
                             IF out.kind = "raise"
                             THEN drv
                             ELSE reset_return_value(drv, out),
                             reraise(calls[c].e, out))
    /\ UNCHANGED <<next_idx, worker_tasks, tasks, jobs, orphans, caller,
                   blocked, proto, parser>>

\* The worker loops run and wait for jobs; nothing is being called yet.
DirectInit ==
    /\ next_idx = 0
    /\ workers = [i \in WorkerIds |->
                    [driver |-> Session(i), queue |-> << >>,
                     state |-> "ready", lock |-> FALSE]]
    /\ worker_tasks = create_tasks(<< >>)
    /\ tasks = [i \in WorkerIds |-> [NewTask EXCEPT !.pc = "get"]]
    /\ jobs = << >>
    /\ orphans = {}
    /\ caller = "idle"
    /\ blocked = FALSE
    /\ proto = NoProto
    /\ parser = NoParse
    /\ calls = NoCalls

DirectNext ==
    \/ \E m \in 1 .. MaxJobWait : enqueue(m)
    \/ \E w \in WorkerIds : queue_get_wakeup(w)
    \/ \E w \in WorkerIds : after_run_job(w)
    \/ \E w \in WorkerIds : after_reset86(w)
    \/ \E w \in WorkerIds : after_reset92(w)
    \/ \E c \in CallIds, w \in WorkerIds, m \in 1 .. MaxJobWait :
          direct_call(c, w, m)
    \/ \E c \in CallIds : direct_after_run_job(c)
    \/ \E c \in CallIds : direct_after_reset86(c)
    \/ \E c \in CallIds : direct_after_reset92(c)

DirectSpec == DirectInit /\ [][DirectNext]_vars

\* ============================================ the parser: references
\* Stop once this many references are collected.
RefCap == 10
NumSites == 2
MaxLinks == 2

\* A URL string, by what the parser tests on it.  form: "direct" (the
\* string is the destination itself), "rel_redirect" ("/url?..."),
\* "abs_redirect" ("https://www.google.com/url?..."), "relative" ("/..."),
\* "fragment" ("#...") or "empty".  kind and site describe the
\* destination (for a redirect: its q parameter, "none" when it has
\* none): "external" (http..., site = its domain), "google" (contains
\* google.com or gstatic.com) or "nodomain" (mailto:, javascript:).
Url(form, kind, site) == [form |-> form, kind |-> kind, site |-> site]
EmptyUrl == Url("empty", "none", 0)
Redirects == {"rel_redirect", "abs_redirect"}

starts_with_slash(url) == url.form \in {"rel_redirect", "relative"}
starts_with_http(url) ==
    \/ url.form = "abs_redirect"
    \/ url.form = "direct" /\ url.kind \in {"external", "google"}
contains_google(url) == url.form = "abs_redirect" \/ url.kind = "google"

unwrap_google_url(href) ==
    IF href.form = "empty"
    THEN EmptyUrl
    ELSE IF href.form \in Redirects
    THEN IF href.kind = "none"
         THEN href
         ELSE Url("direct", href.kind, href.site)
    ELSE href

\* urlparse(url).netloc without "www."; 0 stands for the empty string and
\* -1 for a google domain.
extract_domain(url) ==
    IF url.form = "direct" /\ url.kind = "external"
    THEN url.site
    ELSE IF contains_google(url)
    THEN -1
    ELSE 0

\* A link of the document: its href, whether it has a ping attribute, and
\* whether lines 334-356 find a text of 3 characters or more for it.
Link(href, ping, titled) == [href |-> href, ping |-> ping, titled |-> titled]

\* The tests of the three strategies (lines 311, 315, 321).
redirect_pattern(link) == link.href.form \in Redirects
ping_pattern(link) == link.ping
external_pattern(link) ==
    starts_with_http(link.href) /\ ~contains_google(link.href)

\* soup.find_all(...) with a test: the positions of the matching links, in
\* document order.  A link is identified by its position.
RECURSIVE find_all(_, _, _)
find_all(doc, strategy, i) ==
    IF i > Len(doc)
    THEN << >>
    ELSE LET hit == CASE strategy = 1 -> redirect_pattern(doc[i])
                      [] strategy = 2 -> ping_pattern(doc[i])
                      [] OTHER -> external_pattern(doc[i])
         IN  (IF hit THEN <<i>> ELSE << >>) \o find_all(doc, strategy, i + 1)

\* Lines 305-322: the candidates of strategy 1, then 2, then 3.
candidate_links(doc) ==
    find_all(doc, 1, 1) \o find_all(doc, 2, 1) \o find_all(doc, 3, 1)

\* Lines 324-330: duplicates by identity removed, first occurrence kept.
RECURSIVE unique_links(_, _)
unique_links(candidates, seen_elements) ==
    IF candidates = << >>
    THEN << >>
    ELSE IF Head(candidates) \in seen_elements
    THEN unique_links(Tail(candidates), seen_elements)
    ELSE <<Head(candidates)>>
            \o unique_links(Tail(candidates),
                            seen_elements \cup {Head(candidates)})

\* Lines 365-371.
rejected_url(href, actual_url) ==
    \/ actual_url.form = "empty"
    \/ actual_url.form = "fragment"
    \/ actual_url = href /\ starts_with_slash(href)
    \/ contains_google(actual_url)

\* Variant: no destination counts as seen before.
already_seen_never(actual_url, seen_urls) == FALSE

\* Line 374: `if actual_url in seen_urls`.
already_seen(actual_url, seen_urls) == actual_url \in seen_urls

\* Line 394: the index a new reference gets.
reference_index(references) == Len(references) + 1

\* Lines 332-399: the loop over unique_links.  pos records the link a
\* reference was made from.
RECURSIVE collect_references(_, _, _, _)
collect_references(doc, links, references, seen_urls) ==
    IF links = << >>
    THEN references
    ELSE LET link == doc[Head(links)]
             actual_url == unwrap_google_url(link.href)
             rest == Tail(links)
         IN  IF ~link.titled
             THEN collect_references(doc, rest, references, seen_urls)
             ELSE IF rejected_url(link.href, actual_url)
             THEN collect_references(doc, rest, references, seen_urls)
             ELSE IF already_seen(actual_url, seen_urls)
             THEN collect_references(doc, rest, references, seen_urls)
             ELSE IF extract_domain(actual_url) = 0
             THEN collect_references(doc, rest, references,
                                     seen_urls \cup {actual_url})
             ELSE LET refs == Append(references,
                                     [link |-> actual_url,
                                      source |-> extract_domain(actual_url),
                                      index |-> reference_index(references),
                                      pos |-> Head(links)])
                  IN  IF Len(refs) >= RefCap
                      THEN refs
                      ELSE collect_references(doc, rest, refs,
                                              seen_urls \cup {actual_url})

extract_references_from_html(doc) ==
    collect_references(doc, unique_links(candidate_links(doc), {}),
                       << >>, {})

\* The hrefs of the documents explored.
Hrefs ==
    {Url("direct", "external", n) : n \in 1 .. NumSites}
        \cup {Url("rel_redirect", "external", n) : n \in 1 .. NumSites}
        \cup {Url("direct", "google", 0), Url("direct", "nodomain", 0),
              Url("rel_redirect", "none", 0),
              Url("abs_redirect", "external", 1),
              Url("relative", "none", 0), Url("fragment", "none", 0),
              EmptyUrl}
Links == {Link(h, p, t) : h \in Hrefs, p \in BOOLEAN, t \in BOOLEAN}
RECURSIVE SeqsUpTo(_, _)
SeqsUpTo(S, n) ==
    IF n = 0
    THEN {<< >>}
    ELSE LET shorter == SeqsUpTo(S, n - 1)
         IN  shorter \cup {Append(q, x) : q \in shorter, x \in S}
\* k plain external links with titles, to k distinct sites of their own.
PlainLinks(k) ==
    [i \in 1 .. k |->
        Link(Url("direct", "external", NumSites + i), FALSE, TRUE)]
PlainRuns == {0, RefCap - 1, RefCap, RefCap + 5}
Documents ==
    {PlainLinks(k) \o body : k \in PlainRuns, body \in SeqsUpTo(Links, MaxLinks)}
        \cup {body \o PlainLinks(k) :
                 k \in PlainRuns, body \in SeqsUpTo(Links, MaxLinks)}

RefInit ==
    /\ on_startup
    /\ proto = NoProto
    /\ \E doc \in Documents :
         parser = [NoParse EXCEPT !.phase = "called",
                                  !.fn = "extract_references_from_html",
                                  !.input = doc]

extract_references_run ==
    /\ parser.phase = "called"
    /\ parser.fn = "extract_references_from_html"
    /\ parser' = [parser EXCEPT
                    !.phase = "done",
                    !.out = extract_references_from_html(parser.input)]
    /\ UNCHANGED <<poolVars, proto, calls>>

RefNext == extract_references_run

RefSpec == RefInit /\ [][RefNext]_vars

\* =========================================== the parser: text blocks
\* Limit of total blocks.
BlockCap == 20
MaxBlocks == 3

\* A snippet is a sequence of words, standing for the words joined by
\* single spaces.  No word of the vocabulary is part of another, so one
\* snippet is a substring of another exactly when its words are a
\* contiguous run of the other's.
WordChars ==
    [tiny |-> 4, references |-> 10, substantial |-> 11,
     alpha |-> 21, bravo |-> 22, charlie |-> 23,
     delta |-> 24, echo |-> 25, foxtrot |-> 26]
RECURSIVE chars(_)
\* len(snippet)
chars(snippet) ==
    IF snippet = << >>
    THEN 0
    ELSE WordChars[Head(snippet)]
            + (IF Len(snippet) > 1 THEN 1 ELSE 0) + chars(Tail(snippet))
\* a in b
substring(a, b) ==
    \E k \in 0 .. (Len(b) - Len(a)) : SubSeq(b, k + 1, k + Len(a)) = a
\* set(snippet.split())
word_set(snippet) == {snippet[k] : k \in 1 .. Len(snippet)}
Smaller(m, n) == IF m < n THEN m ELSE n

\* Lines 284-286: the test of one snippet against one seen snippet.
similar(snippet, seen) ==
    /\ chars(snippet) > 20
    /\ chars(seen) > 20
    /\ \/ substring(snippet, seen)
       \/ substring(seen, snippet)
       \/ 10 * Cardinality(word_set(snippet) \cap word_set(seen))
             > 7 * Smaller(Len(snippet), Len(seen))

\* Lines 282-288.
is_duplicate(snippet, seen_snippets) ==
    \E seen \in seen_snippets : similar(snippet, seen)

\* Variant: only the snippet looked at last is remembered.
remember_last(seen_snippets, snippet, duplicate) == {snippet}

\* Lines 290-292: seen_snippets after a paragraph was looked at.
remember(seen_snippets, snippet, duplicate) ==
    IF duplicate THEN seen_snippets ELSE seen_snippets \cup {snippet}

Paragraph(snippet) == [type |-> "paragraph", snippet |-> snippet, items |-> 0]
List(items) == [type |-> "list", snippet |-> << >>, items |-> items]
Take(seq, n) == SubSeq(seq, 1, Smaller(n, Len(seq)))

\* Lines 278-295: the loop over the blocks.
RECURSIVE unique_blocks(_, _)
unique_blocks(blocks, seen_snippets) ==
    IF blocks = << >>
    THEN << >>
    ELSE LET block == Head(blocks)
         IN  IF block.type = "paragraph"
             THEN LET dup == is_duplicate(block.snippet, seen_snippets)
                  IN  (IF dup THEN << >> ELSE <<block>>)
                         \o unique_blocks(Tail(blocks),
                                          remember(seen_snippets,
                                                   block.snippet, dup))
             ELSE <<block>> \o unique_blocks(Tail(blocks), seen_snippets)

deduplicate_blocks(blocks) ==
    IF blocks = << >>
    THEN << >>
    ELSE Take(unique_blocks(blocks, {}), BlockCap)

\* The snippets explored: pairs that are similar by containment, by word
\* overlap, or not at all, and snippets too short to be compared.
Snippets ==
    {<<"substantial", "references">>,
     <<"references", "substantial">>,
     <<"substantial", "references", "tiny">>,
     <<"references", "substantial", "references">>,
     <<"tiny", "tiny", "substantial">>,
     <<"tiny", "tiny">>}
Blocks == {Paragraph(x) : x \in Snippets} \cup {List(1), List(2)}
ListRun(k) == [i \in 1 .. k |-> List(1)]
ListRuns == {0, BlockCap - 1, BlockCap}
BlockSeqs ==
    {ListRun(k) \o body : k \in ListRuns, body \in SeqsUpTo(Blocks, MaxBlocks)}
        \cup {body \o ListRun(k) :
                 k \in ListRuns, body \in SeqsUpTo(Blocks, MaxBlocks)}

DedupInit ==
    /\ on_startup
    /\ proto = NoProto
    /\ \E blocks \in BlockSeqs :
         parser = [NoParse EXCEPT !.phase = "called",
                                  !.fn = "deduplicate_blocks",
                                  !.input = blocks]

\* deduplicate_blocks(blocks)
deduplicate_run ==
    /\ parser.phase = "called"
    /\ parser.fn = "deduplicate_blocks"
    /\ parser' = [parser EXCEPT !.phase = "done",
                                !.out = deduplicate_blocks(parser.input)]
    /\ UNCHANGED <<poolVars, proto, calls>>

\* deduplicate_blocks applied to its own result.
deduplicate_again ==
    /\ parser.phase = "done"
    /\ parser.fn = "deduplicate_blocks"
    /\ parser' = [parser EXCEPT !.phase = "again",
                                !.first = parser.out,
                                !.out = deduplicate_blocks(parser.out)]
    /\ UNCHANGED <<poolVars, proto, calls>>

DedupNext == deduplicate_run \/ deduplicate_again

DedupSpec == DedupInit /\ [][DedupNext]_vars

\* ======================================= the parser: the whole result
\* Limits of inline images and of list items; paragraphs trimmed.
ImageCap == 5
ItemCap == 10
TrimCount == 3
MaxImages == 2
MaxSections == 2

\* An image, by what lines 94-110 test.  src: "empty", "svg_icon" (an
\* svg data URL, a favicon, a short .svg), "google" (contains gstatic or
\* google) or "content".  alt: "empty", "generic" (image, photo,
\* picture), "icon" (contains icon, under 20 characters), "long_icon"
\* (contains icon, 20 characters or more), "short_logo" (contains logo
\* and not icon, under 20 characters), "long_logo", "two_chars",
\* "three_chars" or "caption" (any other text of more than 3 characters).
Image(src, alt) == [src |-> src, alt |-> alt]
Srcs == {"empty", "svg_icon", "google", "content"}
Alts ==
    {"empty", "generic", "icon", "long_icon", "short_logo", "long_logo",
     "two_chars", "three_chars", "caption"}
\* Lines 94-99.
skip_by_src(img) == img.src \in {"empty", "svg_icon"}
\* Variant: the length test of line 104 covers the icon labels too.
skip_by_alt_short_labels(img) ==
    img.alt \in {"generic", "icon", "short_logo", "two_chars"}
\* Lines 102-107: "and" binds tighter than "or", so the length test of
\* line 104 belongs to the logo labels only.
skip_by_alt(img) ==
    img.alt \in {"generic", "icon", "long_icon", "short_logo", "two_chars"}
\* Line 110.
include_image(img) ==
    img.alt \in {"long_icon", "long_logo", "caption"} \/ img.src # "google"
\* Lines 88-116: the loop over the images.
RECURSIVE harvest_images(_)
harvest_images(imgs) ==
    IF imgs = << >>
    THEN << >>
    ELSE LET img == Head(imgs)
             kept == ~skip_by_src(img) /\ ~skip_by_alt(img)
                        /\ include_image(img)
         IN  (IF kept THEN <<img>> ELSE << >>) \o harvest_images(Tail(imgs))

\* A section of the flattened text: whether lines 149-158 drop it,
\* whether detect_list_pattern holds for it, and its parts.  The parts
\* of a list section are its potential items, a number each, 0 for an
\* item that is too short or noise; the parts of a prose section are its
\* sentences, snippets.
Section(dropped, listlike, parts) ==
    [dropped |-> dropped, listlike |-> listlike, parts |-> parts]

\* Lines 254-265: unusable items skipped, exact repeats skipped.
RECURSIVE clean_items(_, _)
clean_items(potential_items, items) ==
    IF potential_items = << >>
    THEN items
    ELSE LET item == Head(potential_items)
             known == \E k \in 1 .. Len(items) : items[k] = item
         IN  clean_items(Tail(potential_items),
                         IF item = 0 \/ known THEN items
                         ELSE Append(items, item))

parse_list_items(potential_items) ==
    Take(clean_items(potential_items, << >>), ItemCap)

\* Lines 203-210: the sentences of more than 20 characters.
RECURSIVE split_into_sentences(_)
split_into_sentences(sentences) ==
    IF sentences = << >>
    THEN << >>
    ELSE (IF chars(Head(sentences)) > 20 THEN <<Head(sentences)>> ELSE << >>)
            \o split_into_sentences(Tail(sentences))

\* Lines 163-180: the blocks of the sections that were kept.
RECURSIVE section_blocks(_)
section_blocks(paragraphs) ==
    IF paragraphs = << >>
    THEN << >>
    ELSE LET paragraph == Head(paragraphs)
             list_items == parse_list_items(paragraph.parts)
             sentences == split_into_sentences(paragraph.parts)
             blocks ==
                 IF paragraph.listlike
                 THEN IF list_items # << >>
                      THEN <<List(Len(list_items))>>
                      ELSE << >>
                 ELSE [k \in 1 .. Len(sentences) |-> Paragraph(sentences[k])]
         IN  blocks \o section_blocks(Tail(paragraphs))

\* Variant: the first blocks are left out, whatever their type.
RECURSIVE leading_trim_any_block(_, _)
leading_trim_any_block(blocks, paragraphs_removed) ==
    IF blocks = << >>
    THEN << >>
    ELSE IF paragraphs_removed < TrimCount
    THEN leading_trim_any_block(Tail(blocks), paragraphs_removed + 1)
    ELSE <<Head(blocks)>>
            \o leading_trim_any_block(Tail(blocks), paragraphs_removed)

\* Lines 185-193: the first paragraphs are left out.
RECURSIVE leading_trim(_, _)
leading_trim(blocks, paragraphs_removed) ==
    IF blocks = << >>
    THEN << >>
    ELSE IF Head(blocks).type = "paragraph" /\ paragraphs_removed < TrimCount
    THEN leading_trim(Tail(blocks), paragraphs_removed + 1)
    ELSE <<Head(blocks)>> \o leading_trim(Tail(blocks), paragraphs_removed)

Kept(section) == ~section.dropped
parse_text_blocks(sections) ==
    IF sections = << >>
    THEN << >>
    ELSE leading_trim(
             deduplicate_blocks(section_blocks(SelectSeq(sections, Kept))), 0)

\* Variant: every harvested image is returned.
limit_images_none(inline_images) == inline_images

\* Line 125: inline_images[:5].
limit_images(inline_images) == Take(inline_images, ImageCap)

extract_structured_from_html(doc) ==
    [inline_images |-> limit_images(harvest_images(doc.imgs)),
     text_blocks |-> parse_text_blocks(doc.sections),
     references |-> extract_references_from_html(doc.links)]

\* The documents explored: one part of the document varies, the other
\* parts are empty or long enough to reach their limit.
Images == {Image(src, alt) : src \in Srcs, alt \in Alts}
ImageRun(k) == [i \in 1 .. k |-> Image("content", "caption")]
ImageSeqs ==
    {ImageRun(k) \o body :
        k \in {0, ImageCap - 1, ImageCap + 1},
        body \in SeqsUpTo(Images, MaxImages)}
ItemRun(k) == [i \in 1 .. k |-> i]
ListSections ==
    {Section(d, TRUE, parts) :
        d \in BOOLEAN,
        parts \in {<<0>>, <<1, 1>>, ItemRun(ItemCap),
                   ItemRun(ItemCap + 1) \o <<0, 1>>}}
ProseSections ==
    {Section(d, FALSE, parts) :
        d \in BOOLEAN,
        parts \in {<<x>> : x \in Snippets}
                    \cup {<<<<"substantial", "references">>,
                             <<"tiny", "tiny", "substantial">>,
                             <<"references", "substantial">>>>}}
Sections == ListSections \cup ProseSections
SectionRun(k) == [i \in 1 .. k |-> Section(FALSE, TRUE, ItemRun(2))]
\* Sections of one sentence each, no two of them with a word in common.
LongWords == <<"alpha", "bravo", "charlie", "delta", "echo", "foxtrot">>
ProseRun(k) == [i \in 1 .. k |-> Section(FALSE, FALSE, <<<<LongWords[i]>>>>)]
SectionSeqs ==
    {SectionRun(k) \o body :
        k \in {0, BlockCap - 1, BlockCap + 1},
        body \in SeqsUpTo(Sections, MaxSections)}
      \cup {front \o ProseRun(k) \o back :
                k \in {TrimCount, 2 * TrimCount},
                front \in SeqsUpTo(Sections, 1),
                back \in SeqsUpTo(Sections, 1)}
HtmlDocuments ==
    {[imgs |-> imgs, sections |-> << >>, links |-> << >>] :
        imgs \in ImageSeqs}
      \cup {[imgs |-> << >>, sections |-> sections, links |-> << >>] :
                sections \in SectionSeqs}
      \cup {[imgs |-> ImageRun(k), sections |-> SectionRun(BlockCap + 1),
              links |-> PlainLinks(k) \o body] :
                k \in PlainRuns, body \in SeqsUpTo(Links, 1)}

ExtractInit ==
    /\ on_startup
    /\ proto = NoProto
    /\ \E doc \in HtmlDocuments :
         parser = [NoParse EXCEPT !.phase = "called",
                                  !.fn = "extract_structured_from_html",
                                  !.input = doc]

extract_structured_run ==
    /\ parser.phase = "called"
    /\ parser.fn = "extract_structured_from_html"
    /\ parser' = [parser EXCEPT
                    !.phase = "done",
                    !.out = extract_structured_from_html(parser.input)]
    /\ UNCHANGED <<poolVars, proto, calls>>

ExtractNext == extract_structured_run

ExtractSpec == ExtractInit /\ [][ExtractNext]_vars

\* ================================================================ claims
Min(S) == CHOOSE x \in S : \A y \in S : x <= y
Queued(j) == \E k \in 1 .. Len(workers[jobs[j].worker].queue) :
                workers[jobs[j].worker].queue[k] = j
Started(j) == ~Queued(j)

\* The jobs with a thread executing session operations on session s: the
\* job in flight of a task suspended in to_thread, and the jobs of threads
\* left running by a cancelled task.
JobsOnSession(s) ==
    {tasks[w].job : w \in {v \in WorkerIds : /\ tasks[v].pc \in InProcess
                                               /\ workers[v].driver = s}}
        \cup {o.job : o \in {x \in orphans : x.driver = s}}

\* C1: in every reachable state at most one job has session operations
\* executing against any one worker's session.
C1_OneJobPerSession ==
    \A w \in WorkerIds : Cardinality(JobsOnSession(Session(w))) <= 1

\* C2: every worker record keeps, in every reachable state, the session
\* handle it was created with, and no two workers hold the same handle.
C2_SessionHandleKept ==
    /\ \A w \in WorkerIds : workers[w].driver = Session(w)
    /\ \A v, w \in WorkerIds : v # w => workers[v].driver # workers[w].driver

\* The selection C3 states: the first ready worker in the cyclic order
\* c, c+1, ..., c+N-1, or the worker at c when none is ready.
ReadyOffsets(ws, c) ==
    {k \in 0 .. (NumWorkers - 1) : ws[(c + k) % NumWorkers].state = "ready"}
ExpectedSelection(ws, c) ==
    IF ReadyOffsets(ws, c) = {}
    THEN c
    ELSE (c + Min(ReadyOffsets(ws, c))) % NumWorkers
WorkerStates == {"initializing", "ready", "busy", "stopped"}
C3_SelectionRule ==
    /\ \A c \in WorkerIds, st \in [WorkerIds -> WorkerStates] :
          LET ws == [w \in WorkerIds |-> [state |-> st[w]]]
          IN  select_worker(ws, c) = ExpectedSelection(ws, c)
    /\ NumWorkers >= 2 =>
          select_worker([w \in WorkerIds |->
                            [state |-> IF w = 0 THEN "busy" ELSE "ready"]], 0)
            = 1
C3_EnqueueStep ==
    Len(jobs') = Len(jobs) + 1 =>
        LET sel == ExpectedSelection(workers, next_idx)
            id == Len(jobs')
        IN  /\ C3_SelectionRule
            /\ jobs'[id].worker = sel
            /\ next_idx' = (sel + 1) % NumWorkers
            /\ workers'[sel].queue = Append(workers[sel].queue, id)
            /\ \A w \in WorkerIds \ {sel} : workers'[w] = workers[w]

\* C3: for every cursor and every assignment of worker states, enqueue
\* selects the first ready worker in cyclic order from the cursor (the
\* worker at the cursor when none is ready), queues the job there and sets
\* the cursor just past the selected index.
C3_IdlePreferringRoundRobin == [][C3_EnqueueStep]_vars

\* Worker 0 busy, worker 1 ready, and the newest job was given to worker 1.
C3_Witness ==
    /\ NumWorkers >= 2
    /\ Len(jobs) >= 2
    /\ jobs[Len(jobs)].worker = 1
    /\ workers[1].queue = <<Len(jobs)>>
    /\ workers[0].state = "busy"
    /\ workers[1].state = "ready"
    /\ next_idx = 2 % NumWorkers

\* C4: of two jobs enqueued to the same worker, the later one is dequeued
\* only after the earlier one was dequeued and its result handle resolved.
C4_StrictFifo ==
    \A i, j \in 1 .. Len(jobs) :
        (i < j /\ jobs[i].worker = jobs[j].worker /\ Started(j))
            => (Started(i) /\ jobs[i].future.st # "pending")

\* ------------------------------------------------- claims on the protocol
\* The run reached the polling loop: a live session and a submitted query.
ProtoRan ==
    /\ proto.phase = "done"
    /\ proto.driver # None
    /\ proto.env.submit
ProtoPages == proto.env.pages
ProtoFinal == ProtoPages[ReadsNeeded(proto.max_wait_seconds)]
\* Poll tick k parses a result with at least one reference.
RefTick(k) == ProtoPages[k].read = "ok" /\ ProtoPages[k].references > 0
\* Poll tick k is read without a session fault and shows no reference.
QuietTick(k) == ProtoPages[k].read # "fault" /\ ~RefTick(k)
TraceAtTick(k) == [submits |-> 1, sleeps |-> k, reads |-> k, parses |-> k]

\* C5: when tick k is the first tick whose parse shows a reference, the run
\* returns exactly the result parsed at tick k, after k sleeps, k reads and
\* k parses and no more.
C5_ReturnsAtFirstReferenceTick ==
    ProtoRan =>
        \A k \in 1 .. proto.max_wait_seconds :
            (RefTick(k) /\ \A i \in 1 .. (k - 1) : QuietTick(i))
                => proto.out = Returned(1, ProtoPages[k], TraceAtTick(k))

\* A run that passed a tick without references, returned at the second
\* tick and left the page of the final read unread.
C5_Witness ==
    /\ ProtoRan
    /\ proto.max_wait_seconds = 2
    /\ QuietTick(1)
    /\ RefTick(2)
    /\ ProtoFinal.read = "ok"
    /\ proto.out.kind = "return"
    /\ proto.out.trace.reads = 2

\* C6: when no tick shows a reference and the final read + parse shows a
\* text block, the run returns the final result and that result has zero
\* references.
C6_PartialResultHasNoReferences ==
    (/\ ProtoRan
     /\ \A k \in 1 .. proto.max_wait_seconds : QuietTick(k)
     /\ ProtoFinal.read = "ok"
     /\ ProtoFinal.text_blocks > 0)
        => /\ proto.out.kind = "return"
           /\ proto.out.text_blocks = ProtoFinal.text_blocks
           /\ proto.out.references = 0

\* ----------------------------------------------- claims on job processing
\* The run of job pages env for a budget ends in the no-content timeout
\* case: the query was submitted, no read raised, no tick showed a
\* reference, and the final parse raised or showed no text block.
TimeoutCase(max_wait_seconds, env) ==
    /\ env.submit
    /\ \A k \in 1 .. ReadsNeeded(max_wait_seconds) : env.pages[k].read # "fault"
    /\ \A k \in 1 .. max_wait_seconds :
          ~(env.pages[k].read = "ok" /\ env.pages[k].references > 0)
    /\ LET final == env.pages[ReadsNeeded(max_wait_seconds)]
       IN  ~(final.read = "ok" /\ final.text_blocks > 0)

\* In this step the task of worker w resumes from run_job.
LeavesRunJob(w) ==
    /\ tasks[w].pc = "run_job"
    /\ tasks'[w].pc \in {"reset86", "reset92"}

\* In this step process_job_on_worker of worker w ends (returns or raises)
\* and the loop handles its outcome.
JobEnds(w) ==
    /\ tasks[w].pc \in {"reset86", "reset92"}
    /\ ~tasks[w].must_cancel
    /\ ~tasks'[w].must_cancel
    /\ tasks'[w] # tasks[w]
    /\ ~(tasks[w].pc = "reset86" /\ tasks'[w].pc = "reset92")

\* The future as the worker loop leaves it when the job raised exception e.
FailedWith(future, e) ==
    IF future.st = "pending" THEN [st |-> "exception", val |-> e] ELSE future

C7_Step(w) ==
    LET t == tasks[w]
        j == t.job
    IN  /\ LeavesRunJob(w) =>
              \A env \in JobEnvs(jobs[j].max_wait_seconds) :
                  TimeoutCase(jobs[j].max_wait_seconds, env)
                      => /\ run_job(Session(w), j, jobs[j].max_wait_seconds,
                                    env).kind = "raise"
                         /\ run_job(Session(w), j, jobs[j].max_wait_seconds,
                                    env).exc = "TimeoutError"
        /\ (JobEnds(w) /\ t.pc = "reset92" /\ t.e.exc = "TimeoutError") =>
              /\ jobs'[j].future = FailedWith(jobs[j].future, t.e)
              /\ jobs'[j].future.st # "result"

\* A future that comes to hold a TimeoutError is the future of a job whose
\* run_job raised it.
C7_OnlyTimeouts ==
    \A i \in 1 .. Len(jobs) :
        (/\ jobs'[i].future # jobs[i].future
         /\ jobs'[i].future.val.exc = "TimeoutError")
            => \E w \in WorkerIds :
                  /\ tasks[w].job = i
                  /\ tasks[w].pc = "reset92"
                  /\ tasks[w].result = NoOutcome
                  /\ tasks[w].e.exc = "TimeoutError"

\* C7: a run in the no-content timeout case raises TimeoutError; the loop
\* resolves the job's future with that very exception and not with a
\* result; and no other fault is ever delivered as a TimeoutError.
C7_TimeoutReachesCaller ==
    [][C7_OnlyTimeouts /\ \A w \in WorkerIds : C7_Step(w)]_vars

\* A caller has received the TimeoutError of its own job.
C7_Witness ==
    \E j \in 1 .. Len(jobs) :
        /\ jobs[j].future.st = "exception"
        /\ jobs[j].future.val.exc = "TimeoutError"
        /\ jobs[j].future.val.query = j

C8_Step(w) ==
    LET t == tasks[w]
        j == t.job
    IN  /\ LeavesRunJob(w) =>
              \* a reset is started, and what the except clause holds is
              \* what run_job raised
              /\ tasks'[w].resets = 1
              /\ \E env \in JobEnvs(jobs[j].max_wait_seconds) :
                    LET out == Untraced(run_job(workers[w].driver, j,
                                                jobs[j].max_wait_seconds, env))
                    IN  IF out.kind = "raise"
                        THEN /\ tasks'[w].pc = "reset92"
                             /\ tasks'[w].e = out
                             /\ tasks'[w].result = NoOutcome
                        ELSE /\ tasks'[w].pc = "reset86"
                             /\ tasks'[w].result = out
        /\ (JobEnds(w) /\ t.pc = "reset92" /\ t.result = NoOutcome) =>
              /\ t.resets >= 1
              /\ t.e.kind = "raise"
              /\ jobs'[j].future = FailedWith(jobs[j].future, t.e)

\* C8: when run_job raises, a reset is attempted and the job's future is
\* resolved with the exception run_job raised, whatever the reset does.
C8_OriginalFaultReraised == [][\A w \in WorkerIds : C8_Step(w)]_vars

ProtocolFaults == {"TimeoutError", "WebDriverException"}
\* Two jobs failed in the protocol and got their own fault: the reset of
\* one returned (its worker's driver was overwritten), the reset of the
\* other raised (its worker's driver was left alone).
C8_Witness ==
    \E i, j \in 1 .. Len(jobs) :
        /\ jobs[i].future.st = "exception"
        /\ jobs[i].future.val.exc \in ProtocolFaults
        /\ workers[jobs[i].worker].driver = None
        /\ jobs[j].future.st = "exception"
        /\ jobs[j].future.val.exc \in ProtocolFaults
        /\ workers[jobs[j].worker].driver = Session(jobs[j].worker)

\* In this step a job of worker w ends in failure: process_job_on_worker
\* raised, or the future could not be resolved (no longer pending).
JobFails(w) ==
    /\ JobEnds(w)
    /\ \/ tasks[w].pc = "reset92"
       \/ jobs[tasks[w].job].future.st # "pending"

C9_Step(w) ==
    JobFails(w) =>
        /\ IF workers[w].queue = << >>
           THEN /\ tasks'[w].pc = "get"
                /\ workers'[w].state = "ready"
           ELSE /\ tasks'[w].pc = "run_job"
                /\ tasks'[w].job = Head(workers[w].queue)
                /\ workers'[w].queue = Tail(workers[w].queue)
                /\ workers'[w].state = "busy"
        /\ \A v \in WorkerIds \ {w} :
              workers'[v] = workers[v] /\ tasks'[v] = tasks[v]
        /\ next_idx' = next_idx
        /\ worker_tasks' = worker_tasks

\* C9: a failing job leaves its worker loop running: the worker is ready
\* and waits for a job, or is already processing the next job of its
\* queue; the other workers and the cursor are untouched.
C9_FaultsDoNotEndLoop == [][\A w \in WorkerIds : C9_Step(w)]_vars

\* Job i was processed to its end (its reset overwrote the driver) with a
\* future its caller had cancelled, and the same loop is running job j.
C9_Witness ==
    \E i, j \in 1 .. Len(jobs) :
        /\ i < j
        /\ jobs[i].worker = jobs[j].worker
        /\ jobs[i].future.st = "cancelled"
        /\ Started(i)
        /\ workers[jobs[i].worker].driver = None
        /\ tasks[jobs[j].worker].pc = "run_job"
        /\ tasks[jobs[j].worker].job = j

\* ------------------------------------------------------- claims on stop()
C10_Step ==
    /\ (caller = "idle" /\ caller' = "stop_gather") =>
          /\ \A w \in Range(worker_tasks) :
                tasks[w].pc # "done" => tasks'[w].must_cancel
          /\ worker_tasks' = worker_tasks
          /\ workers' = workers
    /\ (caller = "stop_gather" /\ caller' = "idle") =>
          /\ \A w \in Range(worker_tasks) : tasks[w].pc = "done"
          /\ worker_tasks' = << >>
          /\ workers' = workers /\ tasks' = tasks /\ next_idx' = next_idx
\* With no task in worker_tasks a stop() step changes nothing at all.
C10_Idempotent ==
    (caller = "idle" /\ worker_tasks = << >>)
        => /\ ENABLED stop
           /\ ~ENABLED (stop /\ vars' # vars)

\* C10: stop() requests cancellation of every unfinished task, returns
\* only when all tasks have ended, leaves worker_tasks empty, and called
\* with no task in worker_tasks it changes nothing.
C10_StopCancelsAndIsIdempotent == [][C10_Step]_vars /\ []C10_Idempotent

\* stop() has returned after cancelling loops that were running.
C10_Witness ==
    /\ caller = "idle"
    /\ worker_tasks = << >>
    /\ \A w \in WorkerIds :
          tasks[w].pc = "done" /\ workers[w].state = "stopped"

\* ------------------------------------------------ claims on round robin
C11_Step ==
    (Len(jobs') = Len(jobs) + 1 /\ Len(jobs) < NumWorkers) =>
        /\ jobs'[Len(jobs')].worker = next_idx
        /\ next_idx' = (next_idx + 1) % NumWorkers
C11_State ==
    \A i, k \in 1 .. Len(jobs) :
        (i <= NumWorkers /\ k <= NumWorkers) =>
            /\ jobs[k].worker = (jobs[1].worker + k - 1) % NumWorkers
            /\ (i # k => jobs[i].worker # jobs[k].worker)

\* C11: from N ready workers, the first N submissions with no completion
\* in between go to N distinct workers: the first to the worker at the
\* cursor, each next one to the next index modulo N, whether or not the
\* loops have dequeued the earlier jobs.
C11_BurstIsRoundRobin == [][C11_Step]_vars /\ []C11_State

\* N jobs went out starting at the last index and wrapping to index 0,
\* the first of them already dequeued by its loop.
C11_Witness ==
    /\ NumWorkers >= 2
    /\ Len(jobs) >= NumWorkers
    /\ jobs[1].worker = NumWorkers - 1
    /\ jobs[2].worker = 0
    /\ tasks[NumWorkers - 1].job = 1
    /\ \A w \in WorkerIds : \E k \in 1 .. NumWorkers : jobs[k].worker = w

\* --------------------------------------------- claims on parse exceptions
\* The pages of the run with every parse exception replaced by a parse
\* that finds nothing.
Blanked(pages) ==
    [k \in DOMAIN pages |->
        IF pages[k].read = "garbled" THEN Page("ok", 0, 0) ELSE pages[k]]
NoReadFault == \A k \in DOMAIN ProtoPages : ProtoPages[k].read # "fault"

\* C12: in a run without session faults a parse exception at a tick is
\* followed by a further read (the next tick or the final read), the
\* outcome is a result or the timeout error, and it is the outcome of the
\* same run with every parse exception replaced by an empty parse.
C12_ParseFaultsAreSwallowed ==
    (ProtoRan /\ NoReadFault) =>
        /\ \A k \in 1 .. proto.max_wait_seconds :
              (/\ ProtoPages[k].read = "garbled"
               /\ \A i \in 1 .. (k - 1) : QuietTick(i))
                  => proto.out.trace.reads > k
        /\ proto.out.kind = "return" \/ proto.out.exc = "TimeoutError"
        /\ proto.out = perform_search_and_extract(
                           proto.driver, 1, proto.max_wait_seconds,
                           [proto.env EXCEPT !.pages = Blanked(@)])

\* The parse raised at the first tick and at the final read, the second
\* tick showed nothing, and the run ended with the timeout error.
C12_Witness ==
    /\ ProtoRan
    /\ proto.max_wait_seconds = 2
    /\ ProtoPages[1].read = "garbled"
    /\ ProtoPages[2] = Page("ok", 0, 1)
    /\ ProtoFinal.read = "garbled"
    /\ proto.out.exc = "TimeoutError"
    /\ proto.out.trace.parses = 3

\* --------------------------------------------------- claims on references
RefDone ==
    /\ parser.phase = "done"
    /\ parser.fn = "extract_references_from_html"
RefDoc == parser.input
RefOut == parser.out
\* The destination a link leads to: the q parameter of a redirect wrapper,
\* else the href itself.
Destination(link) ==
    IF link.href.form \in Redirects /\ link.href.kind # "none"
    THEN Url("direct", link.href.kind, link.href.site)
    ELSE link.href
\* A link a reference can be made from: a candidate with a title and an
\* external destination that has a domain.
Usable(link) ==
    /\ redirect_pattern(link) \/ ping_pattern(link) \/ external_pattern(link)
    /\ link.titled
    /\ Destination(link).form = "direct"
    /\ Destination(link).kind = "external"
\* The order in which the extraction encounters the links.
EncounterOrder == unique_links(candidate_links(RefDoc), {})
UsableLinks == {i \in 1 .. Len(RefDoc) : Usable(RefDoc[i])}
\* rank[i]: the place of link i in the encounter order.
RankIn(order) ==
    [i \in {order[k] : k \in 1 .. Len(order)} |->
        CHOOSE k \in 1 .. Len(order) : order[k] = i]

\* C13: no two references of a result have the same destination; a
\* reference is made from the first usable link encountered that leads to
\* its destination, the references stand in the order of those first
\* links, and every destination a usable link leads to has its reference
\* unless the result was full before that link was reached.
C13_OneReferencePerDestination ==
    RefDone =>
        LET rank == RankIn(EncounterOrder)
            usable == UsableLinks
            out == RefOut
            doc == RefDoc
        IN  /\ \A a, b \in 1 .. Len(out) : a # b => out[a].link # out[b].link
            /\ \A a \in 1 .. Len(out) :
                  /\ out[a].pos \in usable
                  /\ Destination(doc[out[a].pos]) = out[a].link
                  /\ \A k \in usable :
                        Destination(doc[k]) = out[a].link
                            => rank[out[a].pos] <= rank[k]
            /\ \A a, b \in 1 .. Len(out) :
                  a < b => rank[out[a].pos] < rank[out[b].pos]
            /\ \A i \in usable :
                  \/ \E a \in 1 .. Len(out) :
                        out[a].link = Destination(doc[i])
                  \/ /\ Len(out) = RefCap
                     /\ rank[out[RefCap].pos] < rank[i]

\* Two redirect-wrapped links with a title lead to the same destination
\* and the result has one reference, made from the first of them.
C13_Witness ==
    /\ RefDone
    /\ Len(RefDoc) = 2
    /\ redirect_pattern(RefDoc[1]) /\ redirect_pattern(RefDoc[2])
    /\ Usable(RefDoc[1]) /\ Usable(RefDoc[2])
    /\ Destination(RefDoc[1]) = Destination(RefDoc[2])
    /\ Len(RefOut) = 1
    /\ RefOut[1].pos = 1

\* C14: the k-th reference has index k, the references stand in the order
\* in which their links occur in the document, and a document of 15
\* distinct valid external links gives the references of its first 10.
C14_IndexedInDocumentOrder ==
    RefDone =>
        /\ \A k \in 1 .. Len(RefOut) : RefOut[k].index = k
        /\ \A a, b \in 1 .. Len(RefOut) :
              a < b => RefOut[a].pos < RefOut[b].pos
        /\ RefDoc = PlainLinks(RefCap + 5) =>
              /\ Len(RefOut) = RefCap
              /\ \A k \in 1 .. RefCap : RefOut[k].pos = k

\* ------------------------------------------------ claims on deduplication
\* C16: deduplicate_blocks applied to a result of deduplicate_blocks
\* returns it unchanged: the same blocks in the same order.
C16_DeduplicationIdempotent ==
    (parser.fn = "deduplicate_blocks" /\ parser.phase = "again")
        => parser.out = parser.first

\* The first run dropped a paragraph and cut the sequence at the limit,
\* and the second run was given its result.
C16_Witness ==
    /\ parser.fn = "deduplicate_blocks"
    /\ parser.phase = "again"
    /\ Len(parser.input) > BlockCap + 1
    /\ Len(parser.first) = BlockCap
    /\ \E i \in 1 .. BlockCap :
          /\ parser.input[i].type = "paragraph"
          /\ parser.first[i] # parser.input[i]
    /\ \E i \in 1 .. BlockCap : parser.first[i].type = "paragraph"

\* ------------------------------------------------ claims on result sizes
\* C15: every result of extract_structured_from_html has at most 10
\* references, at most 5 inline images and at most 20 text blocks, and
\* each of its list blocks has at most 10 items.
C15_ResultSizesCapped ==
    (parser.fn = "extract_structured_from_html" /\ parser.phase = "done")
        => /\ Len(parser.out.references) <= 10
           /\ Len(parser.out.inline_images) <= 5
           /\ Len(parser.out.text_blocks) <= 20
           /\ \A k \in 1 .. Len(parser.out.text_blocks) :
                 parser.out.text_blocks[k].type = "list"
                     => parser.out.text_blocks[k].items <= 10

\* A document with more images, blocks, list items and links than the
\* limits allow gave a result that is full in every part.
C15_Witness ==
    /\ parser.fn = "extract_structured_from_html"
    /\ parser.phase = "done"
    /\ Len(harvest_images(parser.input.imgs)) > 5
    /\ Len(parser.input.sections) > 20
    /\ Len(parser.input.links) > 10
    /\ Len(parser.out.inline_images) = 5
    /\ Len(parser.out.text_blocks) = 20
    /\ Len(parser.out.references) = 10

\* ----------------------------------------------------- claims on fallback
\* The first attempt meets the no-content timeout case and nothing else
\* fails in it.
FirstTimesOut ==
    /\ proto.env.create /\ proto.env.found /\ proto.env.quit
    /\ TimeoutCase(proto.max_wait_seconds, proto.env)

\* C17: a first attempt that ends with the timeout error is followed by
\* exactly one more attempt with twice the budget, whose outcome is the
\* outcome of the call; any other first attempt is the only one and its
\* outcome is the outcome of the call; and quit() is called once on the
\* session of every attempt that created one.
C17_RetriesOnceOnTimeout ==
    proto.phase = "fallback_done" =>
        LET a == proto.attempts
        IN  /\ Len(a) \in {1, 2}
            /\ a[1].log.budget = proto.max_wait_seconds
            /\ is_timeout(a[1].out) <=> FirstTimesOut
            /\ IF FirstTimesOut
               THEN /\ Len(a) = 2
                    /\ a[2].log.budget = 2 * proto.max_wait_seconds
                    /\ proto.out = a[2].out
               ELSE /\ Len(a) = 1
                    /\ proto.out = a[1].out
            /\ \A k \in 1 .. Len(a) :
                  a[k].log.quits = (IF a[k].log.created THEN 1 ELSE 0)

\* The first attempt timed out with budget 1 and closed its session; the
\* second ran with budget 2, timed out too and closed its session, and
\* its timeout error is what the call raised.
C17_Witness ==
    /\ proto.phase = "fallback_done"
    /\ proto.max_wait_seconds = 1
    /\ Len(proto.attempts) = 2
    /\ proto.attempts[2].log.budget = 2
    /\ proto.attempts[2].out.trace.sleeps = 2
    /\ proto.attempts[1].log.quits = 1
    /\ proto.attempts[2].log.quits = 1
    /\ is_timeout(proto.out)

C20_Step(w) ==
    LET t == tasks[w]
        j == t.job
    IN  /\ (JobEnds(w) /\ t.result.kind = "return") =>
              /\ jobs'[j].future = resolve(jobs[j].future, t.result)
              /\ t.resets = 1
        \* a reset that raises after run_job returned is not followed by
        \* another one
        /\ (t.pc = "reset86" /\ tasks'[w].pc \in InProcess) =>
              tasks'[w].resets = t.resets

\* C20: when run_job of a job returned a result, the step that ends the job
\* resolves the job's future with that result, whether the reset that
\* followed raised or not, and exactly one reset was attempted for the job.
C20_ResetFailureIsNotFatal ==
    [][\A w \in WorkerIds : C20_Step(w)]_vars

\* The guard of worker w is held while a job's session operation executes
\* on the session w was created with.
C19_Guarded ==
    \A w \in WorkerIds : JobsOnSession(Session(w)) # {} => workers[w].lock

\* A step in which on_shutdown closes the sessions closes none on which a
\* job's session operation is executing.
C19_Close ==
    (caller # "closed" /\ caller' = "closed") =>
        \A s \in closed_sessions(workers) : JobsOnSession(s) = {}

\* C19: in every reachable state a session operation of a job executes on
\* a worker's session only while that worker's lock is held, also after
\* the worker loop was cancelled with the blocking call still running in
\* its thread, and on_shutdown closes no session on which such an
\* operation is still executing.
C19_GuardHeldWhileSessionInUse ==
    [][C19_Guarded' /\ C19_Close]_vars

\* The second half of C19 on its own.
C19_NoCloseWhileInUse == [][C19_Close]_vars

\* C18: every job enqueue has accepted comes, in every execution the event
\* loop schedules fairly, to a state where its future is no longer pending
\* (it holds a result or an exception, or its caller gave up waiting).
C18_EveryJobIsResolved ==
    \A j \in JobIds :
        (j <= Len(jobs)) ~> (j <= Len(jobs) /\ jobs[j].future.st # "pending")

\* Job j is pending, is in no queue and is the job of no running loop: the
\* loop that took it from its queue was cancelled before resolving it.
C18_Abandoned(j) ==
    /\ j <= Len(jobs)
    /\ jobs[j].future.st = "pending"
    /\ ~Queued(j)
    /\ \A w \in WorkerIds : tasks[w].job # j

\* No step gives an abandoned job a result or an exception, whatever is
\* called afterwards: its caller waits until it gives up by itself.
C18_AbandonedForGood ==
    [][\A j \in JobIds :
          C18_Abandoned(j) =>
              jobs'[j].future.st \in {"pending", "cancelled"}]_vars

\* No job is ever abandoned.
C18_NoJobAbandoned == \A j \in JobIds : ~C18_Abandoned(j)

\* No accepted job waits in the queue of a worker without a running loop
\* while nobody is starting one.
C18_NoJobStranded ==
    \A j \in JobIds :
        ~(/\ j <= Len(jobs)
          /\ jobs[j].future.st = "pending"
          /\ Queued(j)
          /\ caller = "idle"
          /\ worker_tasks = << >>
          /\ tasks[jobs[j].worker].pc \in {"none", "done"})

\* In this step the thread of run_job for job j is started on worker w.
JobStarts(w, j) ==
    /\ tasks'[w].pc = "run_job"
    /\ tasks'[w].job = j
    /\ tasks[w].pc # "run_job" \/ tasks[w].job # j

\* The jobs that went to worker w before job j did.
EarlierJobs(w, j) == {i \in 1 .. (j - 1) : jobs[i].worker = w}

\* A worker leaves busy for ready only by ending a job, and a job ends only
\* after a reset was started for it.
C21_ReadyStep(w) ==
    /\ (workers[w].state = "busy" /\ workers'[w].state = "ready")
          => JobEnds(w)
    /\ JobEnds(w) => /\ tasks[w].resets >= 1
                     /\ jobs[tasks[w].job].resets >= 1

\* A job starts on a worker only when a reset was started for every earlier
\* job of that worker.
C21_StartStep(w) ==
    \A j \in JobIds :
        JobStarts(w, j) => \A i \in EarlierJobs(w, j) : jobs[i].resets >= 1

\* The first half of C21 on its own.
C21_ResetBeforeReady == [][\A w \in WorkerIds : C21_ReadyStep(w)]_vars

\* C21: a worker goes from busy to ready only after a reset of its session
\* was attempted for the job that ended, and no job starts on a worker
\* whose previous job was not followed by a reset attempt.
C21_ResetAfterEveryJob ==
    [][\A w \in WorkerIds : C21_ReadyStep(w) /\ C21_StartStep(w)]_vars

\* The invocations of process_job_on_worker in progress on worker w, from
\* its session's first operation to its last: the loop's and the direct
\* ones.
InvocationsOn(w) ==
    {<<"loop", v>> : v \in {u \in WorkerIds : u = w /\ tasks[u].pc \in InProcess}}
        \cup {<<"call", c>> : c \in {d \in CallIds : /\ calls[d].worker = w
                                                     /\ calls[d].pc \in InProcess}}

\* The session operations of two invocations never overlap.
C22_NoOverlap ==
    \A w \in WorkerIds : Cardinality(InvocationsOn(w)) <= 1

\* Once the event loop thread is stuck in lock.acquire(), nothing on the
\* loop runs any more: the holder of the lock never gets to release it.
C22_BlockedForGood == [][~blocked]_vars

\* C22: invocations of process_job_on_worker for one worker never have
\* their session operations overlap, and an invocation made while another
\* one is in progress never leaves the event loop thread stuck waiting for
\* the lock.
C22_GuardSerialisesInvocations ==
    /\ C22_NoOverlap
    /\ ~blocked

\* The baseline state: on the start page with the search box enabled.
Submittable(page) == page.url = "start" /\ page.box = "enabled"

\* C23: whenever reset_to_start returns without raising, the session is on
\* the start page and its search box is present and enabled.
C23_ResetLeavesSessionSubmittable ==
    (proto.phase = "reset_done" /\ proto.out.kind # "raise")
        => Submittable(proto.page)

\* What does hold: a reset that returns leaves the session on the start
\* page, whatever the state of its search box.
C23_ResetLeavesSessionOnStartPage ==
    (proto.phase = "reset_done" /\ proto.out.kind # "raise")
        => proto.page.url = "start"

\* In this step a stop() that had tasks to wait for returns.
StopReturns == caller = "stop_gather" /\ caller' = "idle"

\* C24: when a stop() called after start() returns, the state of every
\* worker is "stopped", wherever its loop was when stop() was called.
C24_StoppedAfterStop ==
    [][StopReturns => \A w \in WorkerIds : workers'[w].state = "stopped"]_vars

\* What does hold: when stop() returns, every worker whose loop had run its
\* first step is stopped, and the others are in the state they had before
\* the loop was created.
C24_StoppedIfLoopRan ==
    [][StopReturns =>
          \A w \in WorkerIds : workers'[w].state \in {"stopped", "initializing"}]_vars

\* The changes of state C25 allows.  A step of a loop runs from one await
\* to the next and may make two of them in a row: a loop that finds a job
\* in its queue at its first step goes from initializing to ready to busy.
AllowedChanges ==
    {<<"initializing", "ready">>, <<"ready", "busy">>, <<"busy", "ready">>,
     <<"ready", "stopped">>, <<"busy", "stopped">>}
AllowedInOneStep == AllowedChanges \cup {<<"initializing", "busy">>}

\* C25 as stated: every change of a worker's state is one of
\* initializing->ready, ready->busy, busy->ready, ready->stopped and
\* busy->stopped, and the state of a stopped worker never changes again.
C25_StateMachine ==
    [][\A w \in WorkerIds :
          workers'[w].state # workers[w].state =>
              /\ <<workers[w].state, workers'[w].state>> \in AllowedInOneStep
              /\ workers[w].state # "stopped"]_vars

\* C25 as amended: every change of a worker's state is one of those, or the
\* one a loop created by a later start() makes at its first step, from
\* stopped to ready (and on to busy when a job is waiting).
C25_StateMachineWithRestart ==
    [][\A w \in WorkerIds :
          workers'[w].state # workers[w].state =>
              \/ <<workers[w].state, workers'[w].state>> \in AllowedInOneStep
              \/ /\ workers[w].state = "stopped"
                 /\ tasks[w].pc = "created"
                 /\ workers'[w].state \in {"ready", "busy"}]_vars

\* A worker whose loop was cancelled in the middle of a job, and so went
\* to stopped, is ready again in a loop created by a later start().
C25_Witness ==
    \E j \in JobIds :
        /\ C18_Abandoned(j)
        /\ workers[jobs[j].worker].state = "ready"
        /\ tasks[jobs[j].worker].pc = "get"

\* Worker w has a job waiting in its queue or being processed.
HasPendingWork(ws, ts, w) ==
    ws[w].queue # << >> \/ ts[w].pc \in InProcess \cup {"acquire"}

\* Worker w is idle: ready, nothing queued, nothing being processed.
Idle(ws, ts, w) == ws[w].state = "ready" /\ ~HasPendingWork(ws, ts, w)

\* In this step enqueue gives a new job to worker w.
EnqueuesTo(w) ==
    /\ Len(jobs') = Len(jobs) + 1
    /\ jobs'[Len(jobs')].worker = w

\* C26: whenever enqueue gives a job to a worker that already has a job
\* queued or in flight, no other worker is idle at that moment.
C26_NoStackingWhileIdle ==
    [][\A w \in WorkerIds :
          (EnqueuesTo(w) /\ HasPendingWork(workers, tasks, w))
              => \A v \in WorkerIds \ {w} : ~Idle(workers, tasks, v)]_vars

C27_Step(j) ==
    LET w == jobs[j].worker
    IN  \* a future that left pending never changes again
        /\ jobs[j].future.st # "pending" => jobs'[j].future = jobs[j].future
        \* a result or an exception is stored by the job's own worker at
        \* the end of this job's processing, and it is what that processing
        \* returned or raised
        /\ jobs'[j].future.st \in {"result", "exception"}
              /\ jobs'[j].future # jobs[j].future
           => /\ tasks[w].job = j
              /\ JobEnds(w)
              /\ jobs'[j].future.val \in {tasks[w].result, tasks[w].e}
              /\ jobs'[j].future.val.query \in {j, 0}
              /\ jobs'[j].future.st = "result" =>
                    /\ jobs'[j].future.val = tasks[w].result
                    /\ jobs'[j].future.val.query = j
        \* the job is started by its own worker only, when it leaves that
        \* worker's queue, and never enters a queue again
        /\ \A v \in WorkerIds :
              JobStarts(v, j) => v = w /\ Queued(j) /\ ~Queued(j)'
        /\ ~Queued(j) => ~Queued(j)'
        /\ \A v \in WorkerIds :
              (tasks[v].job = j /\ tasks[v].pc \in InProcess) => v = w

\* C27: a job's future is resolved at most once, by the worker the job was
\* enqueued to, with what the processing of that very job returned or
\* raised; the job is started once, on that worker only.
C27_OwnOutcomeOnce ==
    [][\A j \in 1 .. Len(jobs) : C27_Step(j)]_vars

\* Two jobs went to the same worker, one after the other; the caller of
\* the first got the TimeoutError of its own query and the caller of the
\* second the result of its own.
C27_Witness ==
    /\ Len(jobs) = 2
    /\ jobs[1].worker = jobs[2].worker
    /\ jobs[1].future.st = "exception"
    /\ jobs[1].future.val.exc = "TimeoutError"
    /\ jobs[1].future.val.query = 1
    /\ jobs[2].future.st = "result"
    /\ jobs[2].future.val.query = 2

\* The poll ticks a budget gives: none for 0 and for a negative budget.
Ticks(max_wait_seconds) == IF max_wait_seconds > 0 THEN max_wait_seconds ELSE 0

\* C28: for every budget, negative and 0 included, a run of the protocol
\* ends with a result or an exception; it submits the query once (not at
\* all when the session or the submission fails), sleeps one interval
\* before each poll read, makes at most max_wait_seconds poll reads and at
\* most one more read, the final one, which comes only after all the ticks.
C28_BoundedPolling ==
    proto.phase = "done" =>
        LET tr == proto.out.trace
            n == Ticks(proto.max_wait_seconds)
        IN  /\ proto.out.kind \in {"return", "raise"}
            /\ tr.submits = (IF ProtoRan THEN 1 ELSE 0)
            /\ tr.sleeps <= n
            /\ tr.reads \in {tr.sleeps, tr.sleeps + 1}
            /\ tr.reads = tr.sleeps + 1 => tr.sleeps = n
            /\ tr.parses <= tr.reads
            /\ ~ProtoRan => tr.reads = 0

\* A run with a negative budget: no tick, no sleep, the final read alone,
\* and the timeout error.
C28_Witness ==
    /\ ProtoRan
    /\ proto.max_wait_seconds = -1
    /\ proto.out.trace = [submits |-> 1, sleeps |-> 0, reads |-> 1, parses |-> 1]
    /\ proto.out.exc = "TimeoutError"


\* ------------------------------------------------------------ C29
\* The blocks handed to the trim: the blocks of the kept sections, similar
\* paragraphs left out, at most BlockCap of them.
TrimInput(doc) ==
    deduplicate_blocks(section_blocks(SelectSeq(doc.sections, Kept)))
IsParagraph(block) == block.type = "paragraph"
IsList(block) == block.type = "list"
ParagraphPositions(blocks) == {k \in 1 .. Len(blocks) : IsParagraph(blocks[k])}
\* The positions of the first TrimCount Paragraph blocks (all of them when
\* there are fewer).
TrimmedPositions(blocks) ==
    {k \in ParagraphPositions(blocks) :
        Cardinality({i \in ParagraphPositions(blocks) : i < k}) < TrimCount}
\* The blocks at the other positions, in their order.
Remaining(blocks) ==
    LET rest == (1 .. Len(blocks)) \ TrimmedPositions(blocks)
        nth(i) == CHOOSE k \in rest : Cardinality({r \in rest : r < k}) = i - 1
    IN  [i \in 1 .. Cardinality(rest) |-> blocks[nth(i)]]
ExtractDone ==
    parser.phase = "done" /\ parser.fn = "extract_structured_from_html"

\* C29: the leading trim works on the blocks left after deduplication and
\* the cap of 20: with p Paragraph blocks among them it removes exactly
\* the first min(3, p) Paragraph blocks, never a List block, and keeps the
\* order of the others; six Paragraph blocks leave exactly three, three or
\* fewer leave none.
C29_LeadingTrim ==
    ExtractDone =>
        LET blocks == TrimInput(parser.input)
            out == parser.out.text_blocks
            p == Cardinality(ParagraphPositions(blocks))
        IN  /\ Len(blocks) <= BlockCap
            /\ out = Remaining(blocks)
            /\ Len(out) = Len(blocks) - Smaller(TrimCount, p)
            /\ SelectSeq(out, IsList) = SelectSeq(blocks, IsList)
            /\ Len(SelectSeq(out, IsParagraph)) = p - Smaller(TrimCount, p)
            /\ p = 2 * TrimCount => Len(SelectSeq(out, IsParagraph)) = TrimCount
            /\ p <= TrimCount => SelectSeq(out, IsParagraph) = << >>

\* Six different paragraphs with a list among them: three Paragraph blocks
\* and the list are returned.
C29_Witness ==
    /\ ExtractDone
    /\ Cardinality(ParagraphPositions(TrimInput(parser.input))) = 2 * TrimCount
    /\ \E k \in 1 .. Len(TrimInput(parser.input)) :
         /\ IsList(TrimInput(parser.input)[k])
         /\ k < 2 * TrimCount
    /\ Len(SelectSeq(parser.out.text_blocks, IsParagraph)) = TrimCount

\* A list block before a paragraph that is trimmed stays in the result.
C29_ListKeptWitness ==
    /\ ExtractDone
    /\ Len(TrimInput(parser.input)) = BlockCap
    /\ Cardinality(ParagraphPositions(TrimInput(parser.input))) = 1
    /\ Len(parser.out.text_blocks) = BlockCap - 1


\* ------------------------------------------------------------ C30
\* The images of the document that the harvest returned, when the limit of
\* ImageCap did not cut the result short.
Harvested(img) ==
    \E k \in 1 .. Len(parser.out.inline_images) :
        parser.out.inline_images[k] = img
Uncut == Len(parser.input.imgs) <= ImageCap
InDocument(img) ==
    \E k \in 1 .. Len(parser.input.imgs) : parser.input.imgs[k] = img

\* C30: an image with an empty alternative text is excluded, one whose
\* text is image, photo or picture is excluded, one whose text contains
\* icon or logo is excluded when the text has fewer than 20 characters and
\* kept when it has 20 or more, whatever the source URL.
C30_AltFilter ==
    (ExtractDone /\ Uncut) =>
        \A src \in Srcs, alt \in Alts :
            InDocument(Image(src, alt)) =>
                /\ alt \in {"empty", "generic", "icon", "short_logo"}
                      => ~Harvested(Image(src, alt))
                /\ alt \in {"long_icon", "long_logo"}
                      => Harvested(Image(src, alt))

\* The sources that lines 94-99 exclude, and those that line 110 accepts
\* without a text of more than 3 characters.
ExcludedSource(src) == src \in {"empty", "svg_icon"}
ContentSource(src) == src = "content"
\* C30, as the code has it: image, photo, picture, every text containing
\* icon and every text under 20 characters containing logo exclude the
\* image whatever its source; a text of 20 characters or more containing
\* logo and not icon keeps it unless the source is excluded; an image
\* without alternative text is kept exactly when its source is neither
\* excluded nor a Google one.
C30_AltFilterAsCoded ==
    (ExtractDone /\ Uncut) =>
        \A src \in Srcs, alt \in Alts :
            InDocument(Image(src, alt)) =>
                /\ alt \in {"generic", "icon", "long_icon", "short_logo"}
                      => ~Harvested(Image(src, alt))
                /\ alt = "long_logo"
                      => (Harvested(Image(src, alt)) <=> ~ExcludedSource(src))
                /\ alt = "empty"
                      => (Harvested(Image(src, alt)) <=> ContentSource(src))

\* A document with an image without alternative text and an image with a
\* long icon label, both from a content source: the first was returned,
\* the second was not.
C30_Witness ==
    /\ ExtractDone
    /\ Uncut
    /\ InDocument(Image("content", "empty"))
    /\ InDocument(Image("content", "long_icon"))
    /\ Harvested(Image("content", "empty"))
    /\ ~Harvested(Image("content", "long_icon"))

\* A long logo label from a content source was returned.
C30_LongLogoWitness ==
    /\ ExtractDone
    /\ Uncut
    /\ InDocument(Image("svg_icon", "long_logo"))
    /\ InDocument(Image("content", "long_logo"))
    /\ parser.out.inline_images = <<Image("content", "long_logo")>>

=============================================================================
